---- MODULE Spec2Model ----
(***************************************************************************)
(* Model of the wirefight load generator (loadgen/internal/runner and      *)
(* loadgen/internal/results) and of the parts of the service it talks to.  *)
(*                                                                         *)
(* Spec           one run of the load generator's main: the flags, the     *)
(*                Runner's construction, Runner.Run with the warmup phase, *)
(*                the measurement phase, the workers, the drain goroutine, *)
(*                the result channel and the Collector, then Aggregate,    *)
(*                SaveToFile and the exit status.                          *)
(* SpecAdd        several goroutines calling Collector.Add on one          *)
(*                Collector at the same time.                              *)
(* SpecCollector  one goroutine using a Collector as the tests do: Add,    *)
(*                then Aggregate.                                          *)
(* SpecPercentile percentile called on ascending lists of latencies.       *)
(* SpecIds        one run of main in which the identifiers of the requests *)
(*                sent are logged.                                         *)
(* SpecFair       one run of main under fair scheduling, started at main   *)
(*                or in a measurement phase whose channel is full.         *)
(* SpecService    one request given to logic.Execute and to the REST, the  *)
(*                JSON-RPC and the gRPC handler.                           *)
(* SpecRun        one run of main with any integer as -concurrency and a   *)
(*                context that Run's caller cancels or has cancelled.      *)
(* SpecLate       one run of main in which a worker's select and the start *)
(*                of its request are two steps.                            *)
(* SpecHTTP       one HTTP request given to the REST and to the JSON-RPC   *)
(*                handler.                                                 *)
(* SpecMetrics    handlers counting requests and errors in the service's   *)
(*                metrics.Collector while Snapshot reads it.               *)
(*                                                                         *)
(* float64 values are modelled as exact fractions [num, den] in lowest     *)
(* terms; den = 0 stands for the IEEE results of a division by zero.       *)
(* Latencies are whole milliseconds, durations whole seconds.  StartTime    *)
(* and EndTime of the results the workers build are nanoseconds since the  *)
(* start of the phase; the results of the other specifications, which      *)
(* Aggregate reads LatencyMs and Success of, leave them out.  The field    *)
(* req of a modelled result is a ghost naming the request it came from.    *)
(***************************************************************************)
EXTENDS Integers, Sequences, FiniteSets, TLC

----------------------------------------------------------------------------
(* Bounds of the model *)

\* config.Concurrency of the modelled run
Concurrency == 2
\* the most requests the workers issue in one phase before the deadline fires
MaxReq == 2
\* SpecAdd: the number of goroutines calling Add
NumProducers == 2
\* SpecAdd: the most calls of Add one goroutine makes
MaxAdds == 2
\* SpecCollector: the most results added
MaxResults == 4
\* SpecCollector: latencies are drawn from 0..MaxLatency
MaxLatency == 2
\* SpecCollector: durations, in seconds, are drawn from 0..MaxDuration
MaxDuration == 2
\* SpecPercentile: the longest list percentile is called on
MaxSorted == 10
\* SpecMetrics: the number of goroutines handling requests at a time
NumHandlers == 2
\* SpecMetrics: the most requests the service handles
MaxHandled == 2

(* Program constants *)

\* runPhase: resultChan has room for Concurrency*10 results
ChanFactor == 10
\* net/http: http.StatusOK, http.StatusBadRequest
StatusOK == 200
StatusBadRequest == 400
\* jsonrpc: InvalidParams
InvalidParams == -32602
\* jsonrpc: ParseError, InvalidRequest and MethodNotFound
ParseError == -32700
InvalidRequest == -32600
MethodNotFound == -32601
\* rest.Handler.HandleCompute: http.StatusMethodNotAllowed
StatusMethodNotAllowed == 405
\* main: os.Exit(1), which is also how log.Fatal ends the process
ExitFailure == 1

Nil == "nil"

Phases == {"warmup", "measure"}
Workers == 0 .. (Concurrency - 1)
Producers == 0 .. (NumProducers - 1)

Protocols == {"rest", "jsonrpc", "grpc"}
\* the workload modes main accepts
Modes == {"cpu", "io"}
\* the values of -protocol, -mode and -output of the modelled runs: the
\* accepted protocols and one other, one accepted mode and one other, a file
\* name and the default, the empty text
FlagProtocols == Protocols \cup {"soap"}
FlagModes == {"cpu", "tcp"}
Outputs == {"", "out.json"}
\* -work-factor is any integer: main does not check its sign
WorkFactors == {-1, 1}
\* -duration of the modelled run, in seconds
RunDurations == {2}
\* the latencies, in ms, a worker measures in the modelled run
RunLatencies == {1}

\* error texts a send can return
ErrTransport == "transport error"
ErrContext == "context deadline exceeded"
ErrStatus == "unexpected status"
ErrRPC == "rpc error: InvalidArgument"
\* the error NewRunner returns when grpc.NewClient fails
ErrConnect == "failed to connect to gRPC"

----------------------------------------------------------------------------
(* float64 arithmetic, exact *)

RECURSIVE GCD(_, _)
GCD(a, b) == IF b = 0 THEN a ELSE GCD(b, a % b)

Abs(x) == IF x < 0 THEN -x ELSE x

Zero == [num |-> 0, den |-> 1]

\* a / b for b > 0, in lowest terms
Rat(a, b) ==
    LET g == GCD(Abs(a), b)
    IN  [num |-> a \div g, den |-> b \div g]

\* float64(a) / float64(b): x/0 is +Inf or -Inf, 0/0 is NaN
FDiv(a, b) ==
    IF b = 0
    THEN [num |-> (IF a > 0 THEN 1 ELSE IF a < 0 THEN -1 ELSE 0), den |-> 0]
    ELSE IF b < 0 THEN Rat(-a, -b) ELSE Rat(a, b)

IsNumber(x) == x.den > 0

----------------------------------------------------------------------------
(* results: percentile, mean, Aggregate *)

RECURSIVE Sum(_)
Sum(s) == IF Len(s) = 0 THEN 0 ELSE Head(s) + Sum(Tail(s))

\* a mutant of percentile: the element at floor(index), not interpolated
percentileFloor(sorted, p) ==
    IF Len(sorted) = 0 THEN Zero
    ELSE Rat(sorted[((p * (Len(sorted) - 1)) \div 100) + 1], 1)

\* percentile(sorted, p): index = p/100 * (len-1), linear interpolation
\* between sorted[floor(index)] and sorted[ceil(index)]
percentile(sorted, p) ==
    IF Len(sorted) = 0 THEN Zero
    ELSE LET index100 == p * (Len(sorted) - 1)
             lower == index100 \div 100
             rem == index100 % 100
             upper == IF rem = 0 THEN lower ELSE lower + 1
         IN  IF lower = upper
             THEN Rat(sorted[lower + 1], 1)
             ELSE Rat(sorted[lower + 1] * (100 - rem) + sorted[upper + 1] * rem, 100)

mean(data) ==
    IF Len(data) = 0 THEN Zero ELSE FDiv(Sum(data), Len(data))

ZeroStats ==
    [TotalRequests |-> 0, SuccessfulRequests |-> 0, FailedRequests |-> 0,
     RPS |-> Zero, P50 |-> Zero, P90 |-> Zero, P95 |-> Zero, P99 |-> Zero,
     Mean |-> Zero, Min |-> Zero, Max |-> Zero, ErrorRate |-> Zero]

\* a mutant of SuccessLatencies: the latencies of all results
AllLatencies(rs) == [i \in 1 .. Len(rs) |-> rs[i].LatencyMs]

\* the loop of Aggregate: the latencies of the successful results, in order
RECURSIVE SuccessLatencies(_)
SuccessLatencies(rs) ==
    IF Len(rs) = 0 THEN << >>
    ELSE IF Head(rs).Success
         THEN << Head(rs).LatencyMs >> \o SuccessLatencies(Tail(rs))
         ELSE SuccessLatencies(Tail(rs))

\* the loop of Aggregate: failCount
RECURSIVE FailCount(_)
FailCount(rs) ==
    IF Len(rs) = 0 THEN 0
    ELSE (IF Head(rs).Success THEN 0 ELSE 1) + FailCount(Tail(rs))

\* a mutant of ErrorRateOf: the failures over the successes
ErrorRateOverSuccess(failCount, total) == FDiv(failCount, total - failCount)

\* ErrorRate: float64(failCount) / float64(len(c.results))
ErrorRateOf(failCount, total) == FDiv(failCount, total)

\* a mutant of NoResults: Aggregate has no case for the empty Collector
NoResultsUnchecked(rs) == FALSE

\* Aggregate: len(c.results) == 0
NoResults(rs) == Len(rs) = 0

\* a mutant of SortFloat64s: the latencies are left in arrival order
SortFloat64sSkipped(lat) == lat

\* Aggregate: sort.Float64s(successLatencies)
SortFloat64s(lat) == SortSeq(lat, <)

Aggregate(rs, duration) ==
    IF NoResults(rs) THEN ZeroStats
    ELSE LET lat == SuccessLatencies(rs)
             successCount == Len(lat)
             failCount == FailCount(rs)
             stats == [ZeroStats EXCEPT
                         !.TotalRequests = Len(rs),
                         !.SuccessfulRequests = successCount,
                         !.FailedRequests = failCount,
                         !.RPS = FDiv(successCount, duration),
                         !.ErrorRate = ErrorRateOf(failCount, Len(rs))]
             sorted == SortFloat64s(lat)
         IN  IF Len(lat) = 0 THEN stats
             ELSE [stats EXCEPT
                     !.P50 = percentile(sorted, 50),
                     !.P90 = percentile(sorted, 90),
                     !.P95 = percentile(sorted, 95),
                     !.P99 = percentile(sorted, 99),
                     !.Min = Rat(sorted[1], 1),
                     !.Max = Rat(sorted[Len(sorted)], 1),
                     !.Mean = mean(sorted)]

----------------------------------------------------------------------------
(* The service: logic.Execute and the three handlers *)

\* Execute's validation: the error it returns, or Nil.  A request id is the
\* sequence of the parts of its text, the empty text the empty sequence.
Execute(req) ==
    IF req.request_id = << >> THEN "request_id is required"
    ELSE IF req.mode \notin {"cpu", "io"} THEN "invalid mode"
    ELSE IF req.work_factor < 0 THEN "work_factor must be non-negative"
    ELSE IF req.payload_size_bytes < 0 THEN "payload_size_bytes must be non-negative"
    ELSE Nil

\* executeCPUWork: the SHA-256 hash is taken iterations times, starting from
\* the seed, and the first eight bytes of the last one are the result: the
\* result names the seed hashed iterations times
executeCPUWork(iterations, payloadSize) ==
    [result |-> << "sha256", iterations >>, hashes |-> iterations, sleeps |-> << >>]

\* executeIOWork: chunks calls of time.Sleep(chunkDuration), in milliseconds,
\* and the result "slept_<sleepMs>ms" as the parts of its text
executeIOWork(sleepMs, payloadSize) ==
    LET chunks == IF sleepMs < 10 THEN 1 ELSE 10
        chunkDuration == sleepMs \div chunks
    IN  [result |-> << "slept_", sleepMs, "ms" >>, hashes |-> 0,
         sleeps |-> [i \in 1 .. chunks |-> chunkDuration]]

\* a mutant of ExecuteCall: the workload is executed before the request is
\* validated
ExecuteCallWorkFirst(req, protocol) ==
    LET w == IF req.mode = "io"
             THEN executeIOWork(req.work_factor, req.payload_size_bytes)
             ELSE executeCPUWork(req.work_factor, req.payload_size_bytes)
    IN  IF Execute(req) # Nil
        THEN [err |-> Execute(req), resp |-> << >>, work |-> << w >>]
        ELSE [err |-> Nil,
              resp |-> << [request_id |-> req.request_id, mode |-> req.mode,
                           work_factor |-> req.work_factor,
                           payload_size_bytes |-> req.payload_size_bytes,
                           result |-> w.result, protocol |-> protocol] >>,
              work |-> << w >>]

\* Execute(req, protocol): the error, the response (none or one, without its
\* ServerProcessingMs and Timestamp) and, as a ghost, the workload executed
ExecuteCall(req, protocol) ==
    IF Execute(req) # Nil
    THEN [err |-> Execute(req), resp |-> << >>, work |-> << >>]
    ELSE LET w == IF req.mode = "cpu"
                  THEN executeCPUWork(req.work_factor, req.payload_size_bytes)
                  ELSE executeIOWork(req.work_factor, req.payload_size_bytes)
         IN  [err |-> Nil,
              resp |-> << [request_id |-> req.request_id, mode |-> req.mode,
                           work_factor |-> req.work_factor,
                           payload_size_bytes |-> req.payload_size_bytes,
                           result |-> w.result, protocol |-> protocol] >>,
              work |-> << w >>]

\* int32(x) and int(x) between the int32 fields of the proto messages and
\* the int fields of logic: int32 keeps the low 32 bits, which is the whole
\* of every integer of this model
Int32(x) == x

\* rest.Handler.HandleCompute on a decodable POST: the HTTP status and the
\* ComputeResponse of the body, if there is one
HandleCompute(req) ==
    LET e == ExecuteCall(req, "rest")
    IN  IF e.err # Nil
        THEN [status |-> StatusBadRequest, body |-> << >>]
        ELSE [status |-> StatusOK, body |-> e.resp]

\* a mutant of RPCLabel: the label of the REST handler
RPCLabelOfREST == "rest"

\* jsonrpc.Handler.handleCompute: the protocol label it gives Execute
RPCLabel == "jsonrpc"

\* jsonrpc.Handler.HandleRPC on a decodable POST of method compute: the HTTP
\* status, the code of the response's error object (sendError answers 200
\* with an error object) or no code when the response has a result, and the
\* ComputeResult if there is one
HandleRPC(req) ==
    LET e == ExecuteCall(req, RPCLabel)
    IN  IF e.err # Nil
        THEN [status |-> StatusOK, error |-> << InvalidParams >>, result |-> << >>]
        ELSE [status |-> StatusOK, error |-> << >>, result |-> e.resp]

\* grpc.Server.Compute: what Execute did with the request of the proto
\* message
ComputeCall(req) ==
    ExecuteCall([req EXCEPT !.work_factor = Int32(@),
                            !.payload_size_bytes = Int32(@)], "grpc")

\* grpc.Server.Compute: the error of the call
Compute(req) ==
    IF ComputeCall(req).err # Nil THEN ErrRPC ELSE Nil

\* grpc.Server.Compute: the ComputeResponse of the call, if there is one
ComputeResponse(req) ==
    IF ComputeCall(req).err # Nil
    THEN << >>
    ELSE << [ComputeCall(req).resp[1] EXCEPT
               !.work_factor = Int32(@), !.payload_size_bytes = Int32(@)] >>

----------------------------------------------------------------------------
(* service: the handlers on the whole HTTP request.  A request is its HTTP  *)
(* method, whether its body decodes as JSON and, for a body that does, the  *)
(* fields of the body: the fields of the JSON-RPC envelope (jsonrpc,        *)
(* method, and whether params decodes) and the request for the logic.       *)
(* counted lists the counters of metrics.Collector the handler increments,  *)
(* in the order of the increments.                                          *)

\* a mutant of RESTEnvelope: the body is decoded before the method is looked at
RESTEnvelopeDecodeFirst(r) ==
    IF ~r.decodes THEN << StatusBadRequest >>
    ELSE IF r.method # "POST" THEN << StatusMethodNotAllowed >>
    ELSE << >>

\* rest.Handler.HandleCompute up to the decoded request: the status of the
\* error it answers, if the method is not POST or the body does not decode
RESTEnvelope(r) ==
    IF r.method # "POST" THEN << StatusMethodNotAllowed >>
    ELSE IF ~r.decodes THEN << StatusBadRequest >>
    ELSE << >>

\* rest.Handler.HandleCompute: the HTTP status, the ComputeResponse of the
\* body, if there is one, and the counters incremented
RESTHandler(r) ==
    IF RESTEnvelope(r) # << >>
    THEN [status |-> RESTEnvelope(r)[1], body |-> << >>,
          counted |-> << "requests", "errors" >>]
    ELSE [status |-> HandleCompute(r.body).status,
          body |-> HandleCompute(r.body).body,
          counted |-> IF HandleCompute(r.body).status = StatusOK
                      THEN << "requests" >>
                      ELSE << "requests", "errors" >>]

\* a mutant of RPCEnvelope: the method is looked at before the version
RPCEnvelopeMethodFirst(r) ==
    IF r.method # "POST" THEN << MethodNotFound >>
    ELSE IF ~r.decodes THEN << ParseError >>
    ELSE IF r.rpcMethod # "compute" THEN << MethodNotFound >>
    ELSE IF r.jsonrpc # "2.0" THEN << InvalidRequest >>
    ELSE IF ~r.paramsDecode THEN << InvalidParams >>
    ELSE << >>

\* jsonrpc.Handler.HandleRPC and handleCompute up to the decoded params: the
\* code of the error they answer, if the HTTP method is not POST, the body
\* does not decode, the version is not 2.0, the method is not compute or the
\* params do not decode
RPCEnvelope(r) ==
    IF r.method # "POST" THEN << MethodNotFound >>
    ELSE IF ~r.decodes THEN << ParseError >>
    ELSE IF r.jsonrpc # "2.0" THEN << InvalidRequest >>
    ELSE IF r.rpcMethod # "compute" THEN << MethodNotFound >>
    ELSE IF ~r.paramsDecode THEN << InvalidParams >>
    ELSE << >>

\* jsonrpc.Handler.HandleRPC: the HTTP status, the code of the response's
\* error object, if it has one, the ComputeResult, if it has one, and the
\* counters incremented; sendError and sendSuccess both write the status 200
RPCHandler(r) ==
    IF RPCEnvelope(r) # << >>
    THEN [status |-> StatusOK, error |-> RPCEnvelope(r), result |-> << >>,
          counted |-> << "requests", "errors" >>]
    ELSE [status |-> HandleRPC(r.body).status,
          error |-> HandleRPC(r.body).error,
          result |-> HandleRPC(r.body).result,
          counted |-> IF HandleRPC(r.body).error = << >>
                      THEN << "requests" >>
                      ELSE << "requests", "errors" >>]

\* a mutant of ComputeCounted: a call that fails counts as an error only
ComputeCountedErrorOnly(req) ==
    IF Compute(req) # Nil THEN << "errors" >> ELSE << "requests" >>

\* grpc.Server.Compute: the counters incremented
ComputeCounted(req) ==
    IF Compute(req) # Nil THEN << "requests", "errors" >> ELSE << "requests" >>

----------------------------------------------------------------------------
(* service: metrics *)

\* the goroutines of the server that handle requests at the same time
Handlers == 1 .. NumHandlers

\* metrics.NewCollector(): six counters at zero, the request and the error
\* counter of each protocol
NewCollector ==
    [requests |-> [p \in Protocols |-> 0], errors |-> [p \in Protocols |-> 0]]

\* a handler goroutine that is not handling a request
NoCall == [pc |-> "idle", protocol |-> "", todo |-> << >>, counted |-> << >>]

\* nobody is calling Snapshot
NoSnapshot == [pc |-> 0, loaded |-> << >>, out |-> << >>]

----------------------------------------------------------------------------
VARIABLES
    cfg,            \* Runner.config
    mainPc,         \* where main / Run / runPhase stands
    phase,          \* the phase runPhase is running
    spawnI,         \* runPhase: i of the loop starting the workers
    collectorArg,   \* per phase: runPhase's argument collector (Nil or "collector")
    ctxState,       \* per phase: phaseCtx: "none", "armed" or "done"
    resultChan,     \* per phase: the buffered results of resultChan
    chanClosed,     \* per phase: resultChan is closed
    wpc,            \* per phase and worker: where the worker stands
    requestID,      \* per phase and worker: the worker's requestID
    issued,         \* model: the number of requests issued in the running phase
    err,            \* per phase and worker: the worker's err
    result,         \* per phase and worker: the worker's result
    drainPc,        \* per phase: the drain goroutine: "none", "loop" or "done"
    addPc,          \* per caller of Add: "idle", "append" or "store"
    addArg,         \* per caller of Add: the argument result
    addNew,         \* per caller of Add: the length of the slice append returned
    cArr,           \* Collector.results: the backing array, as far as written
    cLen,           \* Collector.results: len
    runErr,         \* the error Run returned
    stats,          \* main's stats
    inflight,       \* ghost: the requests sent and not yet returned
    completed,      \* ghost: the measurement requests whose send returned
    added,          \* ghost: the results whose Add returned
    aggDuration,    \* the duration the last call of Aggregate was given
    output,         \* main: the flag -output
    newErr,         \* main: the error NewRunner returned
    grpcConn,       \* Runner.grpcConn: Nil, "open" or "closed"
    outFile,        \* the file named by -output: the records written to it
    exitStatus,     \* the exit status of the process, Nil while it runs
    pSorted,        \* SpecPercentile: the list percentile is called on
    pArg,           \* SpecPercentile: the argument p of the last call
    pRet,           \* SpecPercentile: what the last call returned
    svcReq,         \* SpecService: the request the service is given
    svcExec,        \* SpecService: what a direct call of Execute did
    svcReply,       \* SpecService: per protocol, what its handler did
    idLog,          \* ghost: the request ids sent so far, if they are logged
    metrics,        \* the service's metrics.Collector: its six counters
    handling,       \* SpecMetrics: per handler goroutine, the call it is in
    snap,           \* SpecMetrics: the goroutine that calls Snapshot
    callerCtx,      \* the context Run was called with
    late            \* ghost: per worker of the running phase, the requests
                    \* begun after the context of the phase was done

\* main's variables and its process
mainVars == << output, newErr, grpcConn, outFile, exitStatus >>

\* the variables of SpecPercentile
pctVars == << pSorted, pArg, pRet >>

\* the variables of SpecService
svcVars == << svcReq, svcExec, svcReply >>

\* the variables of SpecMetrics
metricsVars == << metrics, handling, snap >>

\* the context of Run's caller and the ghost of the late requests
callVars == << callerCtx, late >>

vars == << cfg, mainPc, phase, spawnI, collectorArg, ctxState, resultChan,
           chanClosed, wpc, requestID, issued, err, result, drainPc, addPc, addArg,
           addNew, cArr, cLen, runErr, stats, inflight, completed, added,
           aggDuration, mainVars, pctVars, svcVars, metricsVars, callVars, idLog >>

runnerVars == << mainVars, pctVars, svcVars, metricsVars, callVars, idLog, cfg,
                 mainPc, phase, spawnI, collectorArg,
                 ctxState, resultChan, chanClosed, wpc, requestID, issued, err,
                 result, drainPc, runErr, inflight, completed >>

\* c.results
Results == SubSeq(cArr, 1, cLen)

NoResult == [req |-> Nil, LatencyMs |-> 0, Success |-> FALSE, Error |-> ""]

\* runPhase: the capacity resultChan is made with
Cap == cfg.Concurrency * ChanFactor

\* the ghost name of request number seq of worker w in phase p
Tag(p, w, seq) == [phase |-> p, worker |-> w, seq |-> seq]

----------------------------------------------------------------------------
(* runner: the protocol adapters.  net is what the network did with the     *)
(* round trip: "ok" (a response came back), "transport" (it failed) or      *)
(* "ctx" (the request's context ended it).                                  *)

\* what the network can do with a request of phase p: the adapters hand
\* phaseCtx to http.NewRequestWithContext and to grpcClient.Compute, so once
\* that context is done the round trip can end with the context's error
NetOutcomes(p) ==
    {"ok", "transport"} \cup (IF ctxState[p] = "done" THEN {"ctx"} ELSE {})

sendRESTRequest(net, req) ==
    IF net = "ctx" THEN ErrContext
    ELSE IF net = "transport" THEN ErrTransport
    ELSE IF HandleCompute(req).status # StatusOK THEN ErrStatus
    ELSE Nil

sendJSONRPCRequest(net, req) ==
    IF net = "ctx" THEN ErrContext
    ELSE IF net = "transport" THEN ErrTransport
    ELSE IF HandleRPC(req).status # StatusOK THEN ErrStatus
    ELSE Nil

sendGRPCRequest(net, req) ==
    IF net = "ctx" THEN ErrContext
    ELSE IF net = "transport" THEN ErrTransport
    ELSE Compute(req)

sendRequest(net, req) ==
    CASE cfg.Protocol = "rest" -> sendRESTRequest(net, req)
      [] cfg.Protocol = "jsonrpc" -> sendJSONRPCRequest(net, req)
      [] cfg.Protocol = "grpc" -> sendGRPCRequest(net, req)
      [] OTHER -> "unknown protocol"

\* reqID := fmt.Sprintf("worker-%d-req-%d", workerID, requestID), in a worker
\* of phase p: the parts of the text
ReqID(p, w, seq) == << "worker", w, "req", seq >>

\* the request worker w builds for its requestID seq
Request(w, seq) ==
    [request_id |-> ReqID(phase, w, seq),
     mode |-> cfg.Mode,
     work_factor |-> cfg.WorkFactor,
     payload_size_bytes |-> cfg.PayloadSizeBytes]

----------------------------------------------------------------------------
(* results.Collector.Add, c.results = append(c.results, result), as the two *)
(* steps it is made of.  The backing array has room for 10000 results, so   *)
(* within the bounds append never moves it.                                 *)

\* append(c.results, result): read the slice, write the element behind it
AddAppend(c) ==
    /\ addPc[c] = "append"
    /\ cArr' = IF cLen + 1 <= Len(cArr)
               THEN [cArr EXCEPT ![cLen + 1] = addArg[c]]
               ELSE Append(cArr, addArg[c])
    /\ addNew' = [addNew EXCEPT ![c] = cLen + 1]
    /\ addPc' = [addPc EXCEPT ![c] = "store"]
    /\ UNCHANGED << cLen, addArg, added, stats, aggDuration >>
    /\ UNCHANGED runnerVars

\* c.results = <the slice append returned>, and Add returns
AddStore(c) ==
    /\ addPc[c] = "store"
    /\ cLen' = addNew[c]
    /\ addPc' = [addPc EXCEPT ![c] = "idle"]
    /\ added' = added \cup {addArg[c]}
    /\ addArg' = [addArg EXCEPT ![c] = NoResult]
    /\ addNew' = [addNew EXCEPT ![c] = 0]
    /\ UNCHANGED << cArr, stats, aggDuration >>
    /\ UNCHANGED runnerVars

----------------------------------------------------------------------------
(* runner: Run and runPhase *)

collectorVars == << addPc, addArg, addNew, cArr, cLen, added, stats, aggDuration >>

\* the context Run was called with is cancelled
CallerDone == callerCtx \in {"cancelled", "cancelledInRun"}

\* runPhase up to the loop that starts the workers: make(chan, Cap), which
\* panics when Cap is negative, the drain goroutine if there is a collector,
\* and phaseCtx, a child of the caller's context: it is done from the start
\* when the caller's is
EnterPhase(p, coll) ==
    IF Cap < 0
    THEN /\ mainPc' = "panicked"
         /\ UNCHANGED << phase, collectorArg, resultChan, chanClosed, drainPc,
                         ctxState, spawnI, issued, late >>
    ELSE /\ phase' = p
         /\ late' = [w \in Workers |-> 0]
         /\ collectorArg' = [collectorArg EXCEPT ![p] = coll]
         /\ resultChan' = [resultChan EXCEPT ![p] = << >>]
         /\ chanClosed' = [chanClosed EXCEPT ![p] = FALSE]
         /\ drainPc' = [drainPc EXCEPT ![p] = IF coll # Nil THEN "loop" ELSE "none"]
         /\ ctxState' = [ctxState EXCEPT ![p] = IF CallerDone THEN "done" ELSE "armed"]
         /\ spawnI' = 0
         /\ issued' = 0
         /\ mainPc' = "spawn"

\* a mutant of WarmupCollector: the warmup phase is given the Collector
WarmupCollectorShared == "collector"

\* Run: the collector argument of the warmup phase
WarmupCollector == Nil

\* Run: r.runPhase(ctx, r.config.WarmupDuration, nil)
RunWarmup ==
    /\ mainPc = "Run"
    /\ EnterPhase("warmup", WarmupCollector)
    /\ UNCHANGED << mainVars, pctVars, svcVars, metricsVars, callerCtx, idLog, cfg,
                    wpc, requestID, err, result, runErr, inflight, completed >>
    /\ UNCHANGED collectorVars

\* Run: the warmup returned; collector := results.NewCollector();
\* r.runPhase(ctx, r.config.Duration, collector)
RunMeasure ==
    /\ mainPc = "phaseDone"
    /\ phase = "warmup"
    /\ IF runErr # Nil
       THEN /\ mainPc' = "failed"
            /\ UNCHANGED << phase, collectorArg, resultChan, chanClosed, drainPc,
                            ctxState, spawnI, issued, late, cArr, cLen >>
       ELSE /\ EnterPhase("measure", "collector")
            /\ cArr' = << >>
            /\ cLen' = 0
    /\ UNCHANGED << mainVars, pctVars, svcVars, metricsVars, callerCtx, idLog, cfg,
                    wpc, requestID, err, result, runErr, inflight, completed >>
    /\ UNCHANGED << addPc, addArg, addNew, added, stats, aggDuration >>

\* a mutant of MoreWorkers: the loop stops one worker short
MoreWorkersButOne == spawnI < cfg.Concurrency - 1

\* runPhase: the condition i < r.config.Concurrency of the loop that starts
\* the workers
MoreWorkers == spawnI < cfg.Concurrency

\* runPhase: go func(workerID int) { defer wg.Done(); r.worker(...) }(i)
StartWorker ==
    /\ mainPc = "spawn"
    /\ IF MoreWorkers
       THEN /\ wpc' = [wpc EXCEPT ![phase][spawnI] = "select"]
            /\ spawnI' = spawnI + 1
            /\ UNCHANGED mainPc
       ELSE /\ mainPc' = "wait"
            /\ UNCHANGED << wpc, spawnI >>
    /\ UNCHANGED << mainVars, pctVars, svcVars, metricsVars, callVars, idLog, cfg,
                    phase, collectorArg, ctxState, resultChan, chanClosed,
                    requestID, issued, err, result, drainPc, runErr, inflight, completed >>
    /\ UNCHANGED collectorVars

\* a mutant of WorkersDone: runPhase does not wait for its workers
WorkersNotAwaited(p) == TRUE

\* wg.Wait() returns: every worker the phase started (wg.Add(1)) has called
\* wg.Done()
WorkersDone(p) == \A w \in Workers : wpc[p][w] \in {"idle", "done"}

\* runPhase: wg.Wait()
WgWait ==
    /\ mainPc = "wait"
    /\ WorkersDone(phase)
    /\ mainPc' = "close"
    /\ UNCHANGED << mainVars, pctVars, svcVars, metricsVars, callVars, idLog, cfg,
                    phase, spawnI, collectorArg, ctxState, resultChan,
                    chanClosed, wpc, requestID, issued, err, result, drainPc, runErr,
                    inflight, completed >>
    /\ UNCHANGED collectorVars

\* runPhase: close(resultChan)
CloseChan ==
    /\ mainPc = "close"
    /\ chanClosed' = [chanClosed EXCEPT ![phase] = TRUE]
    /\ mainPc' = "collectorWait"
    /\ UNCHANGED << mainVars, pctVars, svcVars, metricsVars, callVars, idLog, cfg,
                    phase, spawnI, collectorArg, ctxState, resultChan,
                    wpc, requestID, issued, err, result, drainPc, runErr, inflight,
                    completed >>
    /\ UNCHANGED collectorVars

\* a mutant of DrainDone: runPhase does not wait for the drain goroutine
DrainNotAwaited(p) == TRUE

\* collectorWg.Wait() returns, or there is no collector to wait for
DrainDone(p) == collectorArg[p] # Nil => drainPc[p] = "done"

\* a mutant of PhaseError: runPhase returns the error of its context
PhaseErrorOfContext(p) == IF ctxState[p] = "done" THEN ErrContext ELSE Nil

\* runPhase: return nil, its only return statement
PhaseError(p) == Nil

\* runPhase: collectorWg.Wait(); return nil, and the deferred cancel()
PhaseReturn ==
    /\ mainPc = "collectorWait"
    /\ DrainDone(phase)
    /\ mainPc' = "phaseDone"
    /\ runErr' = PhaseError(phase)
    /\ ctxState' = [ctxState EXCEPT ![phase] = "done"]
    /\ UNCHANGED << mainVars, pctVars, svcVars, metricsVars, callVars, idLog, cfg,
                    phase, spawnI, collectorArg, resultChan, chanClosed,
                    wpc, requestID, issued, err, result, drainPc, inflight, completed >>
    /\ UNCHANGED collectorVars

\* Run: the measurement returned; return collector, nil
RunReturn ==
    /\ mainPc = "phaseDone"
    /\ phase = "measure"
    /\ mainPc' = IF runErr # Nil THEN "failed" ELSE "returned"
    /\ UNCHANGED << mainVars, pctVars, svcVars, metricsVars, callVars, idLog, cfg,
                    phase, spawnI, collectorArg, ctxState, resultChan,
                    chanClosed, wpc, requestID, issued, err, result, drainPc, runErr,
                    inflight, completed >>
    /\ UNCHANGED collectorVars

\* a mutant of ResultsAfterAggregate: Aggregate sorts c.results itself, by
\* latency
ResultsSortedInPlace(arr, n) ==
    SortSeq(SubSeq(arr, 1, n), LAMBDA a, b : a.LatencyMs < b.LatencyMs)
        \o SubSeq(arr, n + 1, Len(arr))

\* c.results after Aggregate: Aggregate reads c.results, and what it appends
\* to and sorts is successLatencies, a slice of its own
ResultsAfterAggregate(arr, n) == arr

\* main: stats := collector.Aggregate(cfg.Duration)
MainAggregate ==
    /\ mainPc = "returned"
    /\ stats' = Aggregate(Results, cfg.Duration)
    /\ aggDuration' = cfg.Duration
    /\ cArr' = ResultsAfterAggregate(cArr, cLen)
    /\ mainPc' = "aggregated"
    /\ UNCHANGED << mainVars, pctVars, svcVars, metricsVars, callVars, idLog, cfg,
                    phase, spawnI, collectorArg, ctxState, resultChan,
                    chanClosed, wpc, requestID, issued, err, result, drainPc, runErr,
                    inflight, completed >>
    /\ UNCHANGED << addPc, addArg, addNew, cLen, added >>

\* the timer of context.WithTimeout(ctx, duration) fires
Deadline(p) ==
    /\ ctxState[p] = "armed"
    /\ ctxState' = [ctxState EXCEPT ![p] = "done"]
    /\ UNCHANGED << mainVars, pctVars, svcVars, metricsVars, callVars, idLog, cfg,
                    mainPc, phase, spawnI, collectorArg, resultChan,
                    chanClosed, wpc, requestID, issued, err, result, drainPc, runErr,
                    inflight, completed >>
    /\ UNCHANGED collectorVars

\* the caller of Run cancels the context it gave: the context of the phase
\* that is running, its child, is done with it
CancelCaller ==
    /\ callerCtx = "live"
    /\ mainPc \in {"Run", "spawn", "wait", "close", "collectorWait", "phaseDone"}
    /\ callerCtx' = "cancelledInRun"
    /\ ctxState' = [p \in Phases |->
                      IF ctxState[p] = "armed" THEN "done" ELSE ctxState[p]]
    /\ UNCHANGED << mainVars, pctVars, svcVars, metricsVars, late, idLog, cfg,
                    mainPc, phase, spawnI, collectorArg, resultChan,
                    chanClosed, wpc, requestID, issued, err, result, drainPc, runErr,
                    inflight, completed >>
    /\ UNCHANGED collectorVars

----------------------------------------------------------------------------
(* runner: worker *)

\* a mutant of CtxDone: the worker's select has no case for the context
CtxDoneIgnored(p) == FALSE

\* worker: case <-ctx.Done() is ready
CtxDone(p) == ctxState[p] = "done"

\* worker: case <-ctx.Done(): return
WorkerExit(p, w) ==
    /\ wpc[p][w] = "select"
    /\ CtxDone(p)
    /\ wpc' = [wpc EXCEPT ![p][w] = "done"]
    /\ requestID' = [requestID EXCEPT ![p][w] = 0]
    /\ UNCHANGED << mainVars, pctVars, svcVars, metricsVars, callVars, idLog, cfg,
                    mainPc, phase, spawnI, collectorArg, ctxState,
                    resultChan, chanClosed, issued, err, result, drainPc, runErr,
                    inflight, completed >>
    /\ UNCHANGED collectorVars

\* a mutant of MayIssue: the worker sends its next request while the last
\* one is still out
MayIssueAsync(p, w) == wpc[p][w] \in {"select", "send"}

\* the worker is at its select and may take the default branch
MayIssue(p, w) == wpc[p][w] = "select"

\* worker: default: requestID++; start := time.Now(); r.sendRequest(ctx, reqID)
\* is called
WorkerIssue(p, w) ==
    /\ MayIssue(p, w)
    /\ ctxState[p] # "done"
    /\ issued < MaxReq
    /\ issued' = issued + 1
    /\ requestID' = [requestID EXCEPT ![p][w] = @ + 1]
    /\ inflight' = inflight \cup {Tag(p, w, requestID[p][w] + 1)}
    /\ idLog' = IF idLog.on
                THEN [idLog EXCEPT !.ids = @ \cup {ReqID(p, w, requestID[p][w] + 1)}]
                ELSE idLog
    /\ wpc' = [wpc EXCEPT ![p][w] = "send"]
    /\ UNCHANGED << mainVars, pctVars, svcVars, metricsVars, callVars, cfg,
                    mainPc, phase, spawnI, collectorArg, ctxState,
                    resultChan, chanClosed, err, result, drainPc, runErr,
                    completed >>
    /\ UNCHANGED collectorVars

\* worker: the select finds case <-ctx.Done() not ready and takes default
WorkerDefault(p, w) ==
    /\ MayIssue(p, w)
    /\ ~CtxDone(p)
    /\ issued < MaxReq
    /\ issued' = issued + 1
    /\ wpc' = [wpc EXCEPT ![p][w] = "default"]
    /\ UNCHANGED << mainVars, pctVars, svcVars, metricsVars, callVars, idLog, cfg,
                    mainPc, phase, spawnI, collectorArg, ctxState,
                    resultChan, chanClosed, requestID, err, result, drainPc, runErr,
                    inflight, completed >>
    /\ UNCHANGED collectorVars

\* worker: in the default branch, requestID++; start := time.Now();
\* r.sendRequest(ctx, reqID) is called; the context may be done by now
WorkerStart(p, w) ==
    /\ wpc[p][w] = "default"
    /\ requestID' = [requestID EXCEPT ![p][w] = @ + 1]
    /\ inflight' = inflight \cup {Tag(p, w, requestID[p][w] + 1)}
    /\ idLog' = IF idLog.on
                THEN [idLog EXCEPT !.ids = @ \cup {ReqID(p, w, requestID[p][w] + 1)}]
                ELSE idLog
    /\ late' = IF ctxState[p] = "done" THEN [late EXCEPT ![w] = @ + 1] ELSE late
    /\ wpc' = [wpc EXCEPT ![p][w] = "send"]
    /\ UNCHANGED << mainVars, pctVars, svcVars, metricsVars, callerCtx, cfg,
                    mainPc, phase, spawnI, collectorArg, ctxState,
                    resultChan, chanClosed, issued, err, result, drainPc, runErr,
                    completed >>
    /\ UNCHANGED collectorVars

\* worker: err := r.sendRequest(ctx, reqID) returns
SendReturn(p, w) ==
    /\ wpc[p][w] = "send"
    /\ \E net \in NetOutcomes(p) :
         err' = [err EXCEPT ![p][w] = sendRequest(net, Request(w, requestID[p][w]))]
    /\ inflight' = inflight \ {Tag(p, w, requestID[p][w])}
    /\ completed' = IF p = "measure"
                    THEN completed \cup {Tag(p, w, requestID[p][w])}
                    ELSE completed
    /\ wpc' = [wpc EXCEPT ![p][w] = "sent"]
    /\ UNCHANGED << mainVars, pctVars, svcVars, metricsVars, callVars, idLog, cfg,
                    mainPc, phase, spawnI, collectorArg, ctxState,
                    resultChan, chanClosed, requestID, issued, result, drainPc,
                    runErr >>
    /\ UNCHANGED collectorVars

\* worker's parameter collect: collector != nil
Collect(p) == collectorArg[p] # Nil

\* a mutant of AfterSend: a worker whose send failed gives up
AfterSendGiveUp(p, w) ==
    IF err[p][w] # Nil THEN "done" ELSE IF Collect(p) THEN "emit" ELSE "select"

\* a mutant of AfterSend: a worker whose send failed sends the request again
AfterSendRetry(p, w) ==
    IF err[p][w] # Nil THEN "send" ELSE IF Collect(p) THEN "emit" ELSE "select"

\* worker: where it goes once the send has returned
AfterSend(p, w) == IF Collect(p) THEN "emit" ELSE "select"

\* the nanoseconds a request takes from start := time.Now() to
\* end := time.Now(): RunLatencies milliseconds and half a microsecond
RunElapsed == { l * 1000000 + 500 : l \in RunLatencies }

\* start := time.Now() of a worker's request number seq, in nanoseconds
\* since the start of the phase: the requests of a worker follow each other
StartOf(seq) == seq * 2000000

\* Duration.Microseconds(): the whole microseconds of d nanoseconds
Microseconds(d) == d \div 1000

\* float64(end.Sub(start).Microseconds()) / 1000.0, which is a whole number
\* of milliseconds for the elapsed times of the model
LatencyMsOf(start, end) ==
    CHOOSE ms \in 0 .. Microseconds(end - start) :
        ms * 1000 = Microseconds(end - start)

\* a mutant of SuccessOf: every result is marked successful
SuccessAlways(e) == TRUE

\* worker: Success: err == nil
SuccessOf(e) == e = Nil

\* worker: the RequestResult of request number seq of worker w in phase p,
\* whose send returned e after d nanoseconds
NewResult(p, w, seq, e, d) ==
    [req |-> Tag(p, w, seq),
     StartTime |-> StartOf(seq),
     EndTime |-> StartOf(seq) + d,
     LatencyMs |-> LatencyMsOf(StartOf(seq), StartOf(seq) + d),
     Success |-> SuccessOf(e),
     Error |-> IF e # Nil THEN e ELSE ""]

\* worker: end := time.Now(); if collect { result := ... } up to the channel send
Record(p, w) ==
    /\ wpc[p][w] = "sent"
    /\ wpc' = [wpc EXCEPT ![p][w] = AfterSend(p, w)]
    /\ IF Collect(p)
       THEN \E d \in RunElapsed :
              result' = [result EXCEPT ![p][w] =
                           NewResult(p, w, requestID[p][w], err[p][w], d)]
       ELSE UNCHANGED result
    /\ err' = [err EXCEPT ![p][w] = Nil]
    /\ UNCHANGED << mainVars, pctVars, svcVars, metricsVars, callVars, idLog, cfg,
                    mainPc, phase, spawnI, collectorArg, ctxState,
                    resultChan, chanClosed, requestID, issued, drainPc, runErr,
                    inflight, completed >>
    /\ UNCHANGED collectorVars

\* worker: resultChan <- result, which waits while the channel is full
ChanSend(p, w) ==
    /\ wpc[p][w] = "emit"
    /\ ~chanClosed[p]
    /\ Len(resultChan[p]) < Cap
    /\ resultChan' = [resultChan EXCEPT ![p] = Append(@, result[p][w])]
    /\ result' = [result EXCEPT ![p][w] = NoResult]
    /\ wpc' = [wpc EXCEPT ![p][w] = "select"]
    /\ UNCHANGED << mainVars, pctVars, svcVars, metricsVars, callVars, idLog, cfg,
                    mainPc, phase, spawnI, collectorArg, ctxState,
                    chanClosed, requestID, issued, err, drainPc, runErr, inflight,
                    completed >>
    /\ UNCHANGED collectorVars

----------------------------------------------------------------------------
(* runPhase: the drain goroutine, for result := range resultChan *)

\* a mutant of CanReceive: the drain goroutine receives nothing
CanReceiveNothing(p) == FALSE

\* for result := range resultChan: the channel has a result to receive
CanReceive(p) == Len(resultChan[p]) > 0

\* a result is received and collector.Add(result) is called
DrainRecv(p) ==
    /\ drainPc[p] = "loop"
    /\ addPc[p] = "idle"
    /\ CanReceive(p)
    /\ addArg' = [addArg EXCEPT ![p] = Head(resultChan[p])]
    /\ addPc' = [addPc EXCEPT ![p] = "append"]
    /\ resultChan' = [resultChan EXCEPT ![p] = Tail(@)]
    /\ UNCHANGED << mainVars, pctVars, svcVars, metricsVars, callVars, idLog, cfg,
                    mainPc, phase, spawnI, collectorArg, ctxState,
                    chanClosed, wpc, requestID, issued, err, result, drainPc, runErr,
                    inflight, completed >>
    /\ UNCHANGED << addNew, cArr, cLen, added, stats, aggDuration >>

\* the channel is closed and empty: the loop ends, collectorWg.Done()
DrainEnd(p) ==
    /\ drainPc[p] = "loop"
    /\ addPc[p] = "idle"
    /\ Len(resultChan[p]) = 0
    /\ chanClosed[p]
    /\ drainPc' = [drainPc EXCEPT ![p] = "done"]
    /\ UNCHANGED << mainVars, pctVars, svcVars, metricsVars, callVars, idLog, cfg,
                    mainPc, phase, spawnI, collectorArg, ctxState,
                    resultChan, chanClosed, wpc, requestID, issued, err, result, runErr,
                    inflight, completed >>
    /\ UNCHANGED collectorVars

----------------------------------------------------------------------------
(* main: from the flags to NewRunner, and from Aggregate to the exit.  A   *)
(* call of log.Fatal or log.Fatalf ends the process with status 1 at once. *)

\* what main leaves alone outside Run
runVars == << cfg, phase, spawnI, collectorArg, ctxState, resultChan,
              chanClosed, wpc, requestID, issued, err, result, drainPc, runErr,
              inflight, completed >>

\* a mutant of FlagsValid: main does not ask for -output
FlagsValidWithoutOutput ==
    /\ cfg.Protocol \in Protocols
    /\ cfg.Mode \in Modes

\* main: none of the three checks of the flags calls log.Fatal
FlagsValid ==
    /\ cfg.Protocol \in Protocols
    /\ cfg.Mode \in Modes
    /\ output # ""

\* main: flag.Parse() and the checks of the flags
MainValidate ==
    /\ mainPc = "main"
    /\ IF FlagsValid
       THEN /\ mainPc' = "NewRunner"
            /\ UNCHANGED exitStatus
       ELSE /\ mainPc' = "exited"
            /\ exitStatus' = ExitFailure
    /\ UNCHANGED << output, newErr, grpcConn, outFile >>
    /\ UNCHANGED << runVars, pctVars, svcVars, metricsVars, callVars, idLog >>
    /\ UNCHANGED collectorVars

\* NewRunner: what grpc.NewClient can return; it is called for grpc only
DialOutcomes == IF cfg.Protocol = "grpc" THEN {Nil, ErrConnect} ELSE {Nil}

\* a mutant of AfterNewRunner: main goes on whatever NewRunner returned
AfterNewRunnerUnchecked(e) == "Run"

\* main: if err != nil { log.Fatalf("Failed to create runner: ...") }
AfterNewRunner(e) == IF e # Nil THEN "exited" ELSE "Run"

\* main: r, err := runner.NewRunner(cfg), and the check of err
NewRunner ==
    /\ mainPc = "NewRunner"
    /\ \E e \in DialOutcomes :
         /\ newErr' = e
         /\ grpcConn' = IF cfg.Protocol = "grpc" /\ e = Nil THEN "open" ELSE Nil
         /\ mainPc' = AfterNewRunner(e)
         /\ exitStatus' = IF AfterNewRunner(e) = "exited" THEN ExitFailure ELSE Nil
    /\ UNCHANGED << output, outFile >>
    /\ UNCHANGED << runVars, pctVars, svcVars, metricsVars, callVars, idLog >>
    /\ UNCHANGED collectorVars

\* main: result := results.BenchmarkResult{...}
BenchmarkResult ==
    [Protocol |-> cfg.Protocol, Mode |-> cfg.Mode, WorkFactor |-> cfg.WorkFactor,
     PayloadSizeBytes |-> cfg.PayloadSizeBytes, Concurrency |-> cfg.Concurrency,
     Duration |-> cfg.Duration, Stats |-> stats]

\* main: results.SaveToFile(result, *output), which can fail, and the check
\* of its error
MainSave ==
    /\ mainPc = "aggregated"
    /\ \E saved \in BOOLEAN :
         IF saved
         THEN /\ outFile' = << BenchmarkResult >>
              /\ mainPc' = "saved"
              /\ UNCHANGED exitStatus
         ELSE /\ mainPc' = "exited"
              /\ exitStatus' = ExitFailure
              /\ UNCHANGED outFile
    /\ UNCHANGED << output, newErr, grpcConn >>
    /\ UNCHANGED << runVars, pctVars, svcVars, metricsVars, callVars, idLog >>
    /\ UNCHANGED collectorVars

\* a mutant of ExitStatusOf: main returns whatever the statistics say
ExitStatusAlwaysZero(s) == 0

\* main: if stats.FailedRequests > 0 { os.Exit(1) }, else main returns
ExitStatusOf(s) == IF s.FailedRequests > 0 THEN ExitFailure ELSE 0

\* main: the end of main; the deferred r.Close() runs when main returns
MainExit ==
    /\ mainPc = "saved"
    /\ mainPc' = "exited"
    /\ exitStatus' = ExitStatusOf(stats)
    /\ grpcConn' = IF ExitStatusOf(stats) = 0 /\ grpcConn = "open"
                   THEN "closed" ELSE grpcConn
    /\ UNCHANGED << output, newErr, outFile >>
    /\ UNCHANGED << runVars, pctVars, svcVars, metricsVars, callVars, idLog >>
    /\ UNCHANGED collectorVars

----------------------------------------------------------------------------
(* Spec: one run of the load generator *)

\* the Config main builds from the flags
Configs ==
    [Protocol : FlagProtocols, Mode : FlagModes, WorkFactor : WorkFactors,
     PayloadSizeBytes : {0}, Concurrency : {Concurrency},
     Duration : RunDurations]

\* nothing has been aggregated, and percentile is not being called
NothingAggregated ==
    /\ aggDuration = 0
    /\ pSorted = << >>
    /\ pArg = 0
    /\ pRet = Zero

\* the work factors the service is given: below, at and above the ten
\* milliseconds from which executeIOWork sleeps in chunks
ServiceWorkFactors == {-1, 0, 1, 9, 10, 15, 20}

\* the requests the service is given
ServiceRequests ==
    [request_id : {<< >>, << "id" >>}, mode : {"cpu", "io", "tcp"},
     work_factor : ServiceWorkFactors, payload_size_bytes : {-1, 0, 1}]

\* the service has not been called
ServiceAtRest ==
    /\ svcExec = << >>
    /\ svcReply = [p \in Protocols |-> << >>]
    /\ metrics = NewCollector
    /\ handling = [h \in Handlers |-> NoCall]
    /\ snap = NoSnapshot

\* the service is left alone
ServiceUnused ==
    /\ svcReq = [request_id |-> << "id" >>, mode |-> "cpu", work_factor |-> 0,
                 payload_size_bytes |-> 0]
    /\ ServiceAtRest

\* the sent request ids are not logged
NoIdLog == [on |-> FALSE, ids |-> {}]

\* no request was begun after the context of its phase was done
NoLate == [w \in Workers |-> 0]

\* main calls Run with context.Background(), which is never cancelled
MainContext ==
    /\ callerCtx = "background"
    /\ late = NoLate

\* main has been started with the flags of cfg and output
MainStart ==
    /\ newErr = Nil
    /\ grpcConn = Nil
    /\ outFile = << >>
    /\ exitStatus = Nil
    /\ NothingAggregated
    /\ mainPc = "main"
    /\ phase = "warmup"
    /\ spawnI = 0
    /\ collectorArg = [p \in Phases |-> Nil]
    /\ ctxState = [p \in Phases |-> "none"]
    /\ resultChan = [p \in Phases |-> << >>]
    /\ chanClosed = [p \in Phases |-> FALSE]
    /\ wpc = [p \in Phases |-> [w \in Workers |-> "idle"]]
    /\ requestID = [p \in Phases |-> [w \in Workers |-> 0]]
    /\ issued = 0
    /\ err = [p \in Phases |-> [w \in Workers |-> Nil]]
    /\ result = [p \in Phases |-> [w \in Workers |-> NoResult]]
    /\ drainPc = [p \in Phases |-> "none"]
    /\ addPc = [p \in Phases |-> "idle"]
    /\ addArg = [p \in Phases |-> NoResult]
    /\ addNew = [p \in Phases |-> 0]
    /\ cArr = << >>
    /\ cLen = 0
    /\ runErr = Nil
    /\ stats = ZeroStats
    /\ inflight = {}
    /\ completed = {}
    /\ added = {}

Init ==
    /\ cfg \in Configs
    /\ output \in Outputs
    /\ ServiceUnused
    /\ idLog = NoIdLog
    /\ MainContext
    /\ MainStart

Next ==
    \/ MainValidate
    \/ NewRunner
    \/ MainSave
    \/ MainExit
    \/ RunWarmup
    \/ RunMeasure
    \/ StartWorker
    \/ WgWait
    \/ CloseChan
    \/ PhaseReturn
    \/ RunReturn
    \/ MainAggregate
    \/ \E p \in Phases : Deadline(p)
    \/ \E p \in Phases, w \in Workers : WorkerExit(p, w)
    \/ \E p \in Phases, w \in Workers : WorkerIssue(p, w)
    \/ \E p \in Phases, w \in Workers : SendReturn(p, w)
    \/ \E p \in Phases, w \in Workers : Record(p, w)
    \/ \E p \in Phases, w \in Workers : ChanSend(p, w)
    \/ \E p \in Phases : DrainRecv(p)
    \/ \E p \in Phases : AddAppend(p)
    \/ \E p \in Phases : AddStore(p)
    \/ \E p \in Phases : DrainEnd(p)

Spec == Init /\ [][Next]_vars

----------------------------------------------------------------------------
(* SpecIds: one run of main with valid flags, in which the identifiers of  *)
(* the requests sent are logged                                            *)

\* main is started as: -protocol rest -mode cpu -work-factor 1 -output out.json
OneRun ==
    /\ cfg = [Protocol |-> "rest", Mode |-> "cpu", WorkFactor |-> 1,
              PayloadSizeBytes |-> 0, Concurrency |-> Concurrency,
              Duration |-> 2]
    /\ output = "out.json"
    /\ ServiceUnused
    /\ MainStart

InitIds ==
    /\ OneRun
    /\ idLog = [on |-> TRUE, ids |-> {}]
    /\ MainContext

SpecIds == InitIds /\ [][Next]_vars

----------------------------------------------------------------------------
(* SpecRun: one run in which the caller of Run passes a context that it    *)
(* can cancel or has cancelled, and -concurrency is any integer            *)

\* the values of -concurrency: negative, zero and positive
RunConcurrencies == {-1, 0, Concurrency}

\* the caller's context: not cancelled so far, or cancelled before Run is
\* called
CallerContexts == {"live", "cancelled"}

InitRun ==
    /\ cfg \in [Protocol : {"rest"}, Mode : {"cpu"}, WorkFactor : {1},
                PayloadSizeBytes : {0}, Concurrency : RunConcurrencies,
                Duration : RunDurations]
    /\ output = "out.json"
    /\ ServiceUnused
    /\ idLog = NoIdLog
    /\ callerCtx \in CallerContexts
    /\ late = NoLate
    /\ MainStart

NextRun ==
    \/ MainValidate
    \/ NewRunner
    \/ MainSave
    \/ MainExit
    \/ RunWarmup
    \/ RunMeasure
    \/ StartWorker
    \/ WgWait
    \/ CloseChan
    \/ PhaseReturn
    \/ RunReturn
    \/ MainAggregate
    \/ CancelCaller
    \/ \E p \in Phases : Deadline(p)
    \/ \E p \in Phases, w \in Workers : WorkerExit(p, w)
    \/ \E p \in Phases, w \in Workers : WorkerIssue(p, w)
    \/ \E p \in Phases, w \in Workers : SendReturn(p, w)
    \/ \E p \in Phases, w \in Workers : Record(p, w)
    \/ \E p \in Phases, w \in Workers : ChanSend(p, w)
    \/ \E p \in Phases : DrainRecv(p)
    \/ \E p \in Phases : AddAppend(p)
    \/ \E p \in Phases : AddStore(p)
    \/ \E p \in Phases : DrainEnd(p)

SpecRun == InitRun /\ [][NextRun]_vars

----------------------------------------------------------------------------
(* SpecLate: one run of main with valid flags in which the worker's select *)
(* and the start of its request are two steps, so that the deadline can    *)
(* fire between them                                                       *)

InitLate ==
    /\ OneRun
    /\ idLog = NoIdLog
    /\ MainContext

NextLate ==
    \/ MainValidate
    \/ NewRunner
    \/ MainSave
    \/ MainExit
    \/ RunWarmup
    \/ RunMeasure
    \/ StartWorker
    \/ WgWait
    \/ CloseChan
    \/ PhaseReturn
    \/ RunReturn
    \/ MainAggregate
    \/ \E p \in Phases : Deadline(p)
    \/ \E p \in Phases, w \in Workers : WorkerExit(p, w)
    \/ \E p \in Phases, w \in Workers : WorkerDefault(p, w)
    \/ \E p \in Phases, w \in Workers : WorkerStart(p, w)
    \/ \E p \in Phases, w \in Workers : SendReturn(p, w)
    \/ \E p \in Phases, w \in Workers : Record(p, w)
    \/ \E p \in Phases, w \in Workers : ChanSend(p, w)
    \/ \E p \in Phases : DrainRecv(p)
    \/ \E p \in Phases : AddAppend(p)
    \/ \E p \in Phases : AddStore(p)
    \/ \E p \in Phases : DrainEnd(p)

SpecLate == InitLate /\ [][NextLate]_vars

----------------------------------------------------------------------------
(* SpecFair: one run of main under fair scheduling of the goroutines.  It  *)
(* starts at main or in the middle of a measurement phase whose drain      *)
(* goroutine has lagged behind: the channel is full and every worker is    *)
(* at its send.                                                            *)

\* a measurement phase in which worker 0 has filled the channel with the
\* results of its first Cap requests, every worker has sent one request
\* more and is at resultChan <- result, and the drain goroutine has not
\* received anything yet; these are the requests of the phase that the
\* model follows
Backlog ==
    /\ cfg = [Protocol |-> "rest", Mode |-> "cpu", WorkFactor |-> 1,
              PayloadSizeBytes |-> 0, Concurrency |-> Concurrency,
              Duration |-> 2]
    /\ output = "out.json"
    /\ ServiceUnused
    /\ newErr = Nil
    /\ grpcConn = Nil
    /\ outFile = << >>
    /\ exitStatus = Nil
    /\ NothingAggregated
    /\ mainPc = "wait"
    /\ phase = "measure"
    /\ spawnI = Concurrency
    /\ collectorArg = [p \in Phases |->
                         IF p = "measure" THEN "collector" ELSE WarmupCollector]
    /\ ctxState = [p \in Phases |-> IF p = "measure" THEN "armed" ELSE "done"]
    /\ resultChan = [p \in Phases |->
                       IF p = "measure"
                       THEN [i \in 1 .. Cap |->
                               NewResult("measure", 0, i, Nil, 1000500)]
                       ELSE << >>]
    /\ chanClosed = [p \in Phases |-> p = "warmup"]
    /\ wpc = [p \in Phases |->
                [w \in Workers |-> IF p = "measure" THEN "emit" ELSE "done"]]
    /\ requestID = [p \in Phases |->
                      [w \in Workers |->
                         IF p = "warmup" THEN 0 ELSE IF w = 0 THEN Cap + 1 ELSE 1]]
    /\ issued = MaxReq
    /\ err = [p \in Phases |-> [w \in Workers |-> Nil]]
    /\ result = [p \in Phases |->
                   [w \in Workers |->
                      IF p = "measure"
                      THEN NewResult("measure", w, IF w = 0 THEN Cap + 1 ELSE 1,
                                     Nil, 1000500)
                      ELSE NoResult]]
    /\ drainPc = [p \in Phases |-> IF p = "measure" THEN "loop" ELSE "none"]
    /\ addPc = [p \in Phases |-> "idle"]
    /\ addArg = [p \in Phases |-> NoResult]
    /\ addNew = [p \in Phases |-> 0]
    /\ cArr = << >>
    /\ cLen = 0
    /\ runErr = Nil
    /\ stats = ZeroStats
    /\ inflight = {}
    /\ completed = { Tag("measure", 0, i) : i \in 1 .. (Cap + 1) }
                       \cup { Tag("measure", w, 1) : w \in Workers }
    /\ added = {}

InitFair ==
    /\ idLog = NoIdLog
    /\ MainContext
    /\ OneRun \/ Backlog

\* the Go scheduler runs every goroutine that can run: main in runPhase,
\* the workers and the drain goroutine; a send blocked on the full channel
\* waits in the channel's queue of senders, which is served in order, so it
\* is not passed over for ever; a request that is out returns
Fairness ==
    /\ WF_vars(StartWorker)
    /\ WF_vars(WgWait)
    /\ WF_vars(CloseChan)
    /\ WF_vars(PhaseReturn)
    /\ \A p \in Phases :
         /\ WF_vars(DrainRecv(p))
         /\ WF_vars(AddAppend(p))
         /\ WF_vars(AddStore(p))
         /\ WF_vars(DrainEnd(p))
    /\ \A p \in Phases, w \in Workers :
         /\ WF_vars(WorkerExit(p, w))
         /\ WF_vars(SendReturn(p, w))
         /\ WF_vars(Record(p, w))
         /\ SF_vars(ChanSend(p, w))

SpecFair == InitFair /\ [][Next]_vars /\ Fairness

----------------------------------------------------------------------------
(* SpecAdd: NumProducers goroutines call Add on one Collector *)

\* the runner is not part of SpecAdd and SpecCollector
RunnerAtRest ==
    /\ cfg = [Protocol |-> "rest", Mode |-> "cpu", WorkFactor |-> 1,
              PayloadSizeBytes |-> 0, Concurrency |-> Concurrency,
              Duration |-> 1]
    /\ idLog = NoIdLog
    /\ MainContext
    /\ output = "out.json"
    /\ newErr = Nil
    /\ grpcConn = Nil
    /\ outFile = << >>
    /\ exitStatus = Nil
    /\ phase = "measure"
    /\ spawnI = 0
    /\ collectorArg = [p \in Phases |-> Nil]
    /\ ctxState = [p \in Phases |-> "none"]
    /\ resultChan = [p \in Phases |-> << >>]
    /\ chanClosed = [p \in Phases |-> FALSE]
    /\ wpc = [p \in Phases |-> [w \in Workers |-> "idle"]]
    /\ requestID = [p \in Phases |-> [w \in Workers |-> 0]]
    /\ issued = 0
    /\ err = [p \in Phases |-> [w \in Workers |-> Nil]]
    /\ result = [p \in Phases |-> [w \in Workers |-> NoResult]]
    /\ drainPc = [p \in Phases |-> "none"]
    /\ runErr = Nil
    /\ inflight = {}
    /\ completed = {}

\* c := NewCollector(), and nobody has called Add yet
InitAdd ==
    /\ RunnerAtRest
    /\ NothingAggregated
    /\ ServiceUnused
    /\ mainPc = "producers"
    /\ addPc = [k \in Producers |-> "idle"]
    /\ addArg = [k \in Producers |-> NoResult]
    /\ addNew = [k \in Producers |-> 0]
    /\ cArr = << >>
    /\ cLen = 0
    /\ stats = ZeroStats
    /\ added = {}

\* the calls of Add goroutine k has made
Calls(k) ==
    Cardinality({r \in added : r.req.worker = k})
    + (IF addPc[k] # "idle" THEN 1 ELSE 0)

\* goroutine k calls c.Add(result) with a result of its own
ProducerCall(k) ==
    /\ addPc[k] = "idle"
    /\ Calls(k) < MaxAdds
    /\ addArg' = [addArg EXCEPT ![k] =
                    [req |-> Tag("measure", k, Calls(k) + 1), LatencyMs |-> 1,
                     Success |-> TRUE, Error |-> ""]]
    /\ addPc' = [addPc EXCEPT ![k] = "append"]
    /\ UNCHANGED << addNew, cArr, cLen, added, stats, aggDuration >>
    /\ UNCHANGED runnerVars

NextAdd ==
    \/ \E k \in Producers : ProducerCall(k)
    \/ \E k \in Producers : AddAppend(k)
    \/ \E k \in Producers : AddStore(k)

SpecAdd == InitAdd /\ [][NextAdd]_vars

----------------------------------------------------------------------------
(* SpecCollector: one goroutine adds results, then aggregates, as the tests *)
(* of the package do                                                        *)

Latencies == 0 .. MaxLatency
Durations == 0 .. MaxDuration

\* the results the goroutine adds
TestResults ==
    { [req |-> Nil, LatencyMs |-> l, Success |-> ok,
       Error |-> IF ok THEN "" ELSE "test error"] :
      l \in Latencies, ok \in BOOLEAN }

InitCollector ==
    /\ RunnerAtRest
    /\ NothingAggregated
    /\ ServiceUnused
    /\ mainPc = "adding"
    /\ addPc = [k \in {"test"} |-> "idle"]
    /\ addArg = [k \in {"test"} |-> NoResult]
    /\ addNew = [k \in {"test"} |-> 0]
    /\ cArr = << >>
    /\ cLen = 0
    /\ stats = ZeroStats
    /\ added = {}

\* collector.Add(r) is called
TestAdd(r) ==
    /\ mainPc = "adding"
    /\ addPc["test"] = "idle"
    /\ cLen < MaxResults
    /\ addArg' = [addArg EXCEPT !["test"] = r]
    /\ addPc' = [addPc EXCEPT !["test"] = "append"]
    /\ UNCHANGED << addNew, cArr, cLen, added, stats, aggDuration >>
    /\ UNCHANGED runnerVars

\* stats := collector.Aggregate(d)
TestAggregate(d) ==
    /\ mainPc \in {"adding", "aggregated"}
    /\ addPc["test"] = "idle"
    /\ stats' = Aggregate(Results, d)
    /\ aggDuration' = d
    /\ cArr' = ResultsAfterAggregate(cArr, cLen)
    /\ mainPc' = "aggregated"
    /\ UNCHANGED << mainVars, pctVars, svcVars, metricsVars, callVars, idLog, cfg,
                    phase, spawnI, collectorArg, ctxState, resultChan,
                    chanClosed, wpc, requestID, issued, err, result, drainPc,
                    runErr, inflight, completed >>
    /\ UNCHANGED << addPc, addArg, addNew, cLen, added >>

NextCollector ==
    \/ \E r \in TestResults : TestAdd(r)
    \/ AddAppend("test")
    \/ AddStore("test")
    \/ \E d \in Durations : TestAggregate(d)

SpecCollector == InitCollector /\ [][NextCollector]_vars

----------------------------------------------------------------------------
(* SpecPercentile: an ascending list of latencies is built, then percentile *)
(* is called on it, as Aggregate and TestPercentile call it                 *)

\* the first latency of a list, and the steps from one latency to the next
FirstLatencies == {0, 1}
LatencySteps == {0, 1, 3}

\* the values of p Aggregate calls percentile with
Ps == {50, 90, 95, 99}

InitPercentile ==
    /\ RunnerAtRest
    /\ NothingAggregated
    /\ ServiceUnused
    /\ mainPc = "sorting"
    /\ addPc = [k \in {"test"} |-> "idle"]
    /\ addArg = [k \in {"test"} |-> NoResult]
    /\ addNew = [k \in {"test"} |-> 0]
    /\ cArr = << >>
    /\ cLen = 0
    /\ stats = ZeroStats
    /\ added = {}

\* the list grows by a latency that is not below its last one
NextLatency(v) ==
    /\ mainPc = "sorting"
    /\ Len(pSorted) < MaxSorted
    /\ pSorted' = Append(pSorted, v)
    /\ UNCHANGED << pArg, pRet, mainPc, mainVars, runVars, svcVars, metricsVars, callVars, idLog >>
    /\ UNCHANGED collectorVars

\* percentile(sorted, p) is called
CallPercentile(p) ==
    /\ mainPc \in {"sorting", "called"}
    /\ pArg' = p
    /\ pRet' = percentile(pSorted, p)
    /\ mainPc' = "called"
    /\ UNCHANGED << pSorted, mainVars, runVars, svcVars, metricsVars, callVars, idLog >>
    /\ UNCHANGED collectorVars

\* the latencies the list can grow by
NextLatencies ==
    IF Len(pSorted) = 0
    THEN FirstLatencies
    ELSE { pSorted[Len(pSorted)] + s : s \in LatencySteps }

NextPercentile ==
    \/ \E v \in NextLatencies : NextLatency(v)
    \/ \E p \in Ps : CallPercentile(p)

SpecPercentile == InitPercentile /\ [][NextPercentile]_vars

----------------------------------------------------------------------------
(* SpecService: one request is given to logic.Execute, as the tests of the  *)
(* package do, and to each of the three handlers                            *)

InitService ==
    /\ RunnerAtRest
    /\ NothingAggregated
    /\ svcReq \in ServiceRequests
    /\ ServiceAtRest
    /\ mainPc = "serving"
    /\ addPc = [k \in {"test"} |-> "idle"]
    /\ addArg = [k \in {"test"} |-> NoResult]
    /\ addNew = [k \in {"test"} |-> 0]
    /\ cArr = << >>
    /\ cLen = 0
    /\ stats = ZeroStats
    /\ added = {}

\* resp, err := Execute(req, "test")
CallExecute ==
    /\ svcExec = << >>
    /\ svcExec' = << ExecuteCall(svcReq, "test") >>
    /\ UNCHANGED << svcReq, svcReply, idLog, metricsVars, callVars,
                    mainPc, mainVars, pctVars, runVars >>
    /\ UNCHANGED collectorVars

\* the handler of protocol p has answered with reply
Serve(p, reply) ==
    /\ svcReply[p] = << >>
    /\ svcReply' = [svcReply EXCEPT ![p] = << reply >>]
    /\ UNCHANGED << svcReq, svcExec, idLog, metricsVars, callVars,
                    mainPc, mainVars, pctVars, runVars >>
    /\ UNCHANGED collectorVars

\* POST /compute: a response with status 200 carries the ComputeResponse
ServeREST ==
    Serve("rest", [accepted |-> HandleCompute(svcReq).status = StatusOK,
                   response |-> HandleCompute(svcReq).body])

\* POST /rpc, method compute: a response without an error object carries
\* the ComputeResult
ServeJSONRPC ==
    Serve("jsonrpc", [accepted |-> HandleRPC(svcReq).error = << >>,
                      response |-> HandleRPC(svcReq).result])

\* the RPC Compute: a call without an error returns the ComputeResponse
ServeGRPC ==
    Serve("grpc", [accepted |-> Compute(svcReq) = Nil,
                   response |-> ComputeResponse(svcReq)])

NextService ==
    \/ CallExecute
    \/ ServeREST
    \/ ServeJSONRPC
    \/ ServeGRPC

SpecService == InitService /\ [][NextService]_vars

----------------------------------------------------------------------------
(* SpecHTTP: one HTTP request, given to the REST handler and to the        *)
(* JSON-RPC handler                                                        *)

\* the requests for the logic that the body or the params carry
HTTPBodies ==
    [request_id : {<< >>, << "id" >>}, mode : {"cpu", "io", "tcp"},
     work_factor : {-1, 1}, payload_size_bytes : {0}]

\* the HTTP requests; the REST handler reads method, decodes and body
HTTPRequests ==
    [method : {"POST", "GET"}, decodes : BOOLEAN, jsonrpc : {"2.0", "1.0"},
     rpcMethod : {"compute", "unknown"}, paramsDecode : BOOLEAN,
     body : HTTPBodies]

InitHTTP ==
    /\ RunnerAtRest
    /\ NothingAggregated
    /\ svcReq \in HTTPRequests
    /\ ServiceAtRest
    /\ mainPc = "serving"
    /\ addPc = [k \in {"test"} |-> "idle"]
    /\ addArg = [k \in {"test"} |-> NoResult]
    /\ addNew = [k \in {"test"} |-> 0]
    /\ cArr = << >>
    /\ cLen = 0
    /\ stats = ZeroStats
    /\ added = {}

\* handler.HandleCompute(w, req) of the REST handler
ServeHTTPREST == Serve("rest", RESTHandler(svcReq))

\* handler.HandleRPC(w, req) of the JSON-RPC handler
ServeHTTPJSONRPC == Serve("jsonrpc", RPCHandler(svcReq))

NextHTTP ==
    \/ ServeHTTPREST
    \/ ServeHTTPJSONRPC

SpecHTTP == InitHTTP /\ [][NextHTTP]_vars

----------------------------------------------------------------------------
(* SpecMetrics: the server handles up to MaxHandled requests, in up to     *)
(* NumHandlers goroutines at a time, while another goroutine calls         *)
(* Snapshot on the metrics.Collector they count in.  A counter is an       *)
(* atomic.Int64: each Add(1) and each Load() is one step.                  *)

\* the counters the handler of protocol p increments for the request r, in
\* the order of the increments
CountedBy(p, r) ==
    IF p = "rest" THEN RESTHandler(r).counted
    ELSE IF p = "jsonrpc" THEN RPCHandler(r).counted
    ELSE ComputeCounted(r.body)

\* the calls of the handlers: every protocol with every request, as far as
\* the counters tell them apart
HandlerCalls ==
    { [protocol |-> p, todo |-> CountedBy(p, r)] :
          p \in Protocols, r \in HTTPRequests }

\* the requests that handlers have been called with so far
Begun ==
    metrics.requests["rest"] + metrics.requests["jsonrpc"]
        + metrics.requests["grpc"]
        + Cardinality({ h \in Handlers : /\ handling[h].pc = "run"
                                         /\ handling[h].counted = << >> })

InitMetrics ==
    /\ RunnerAtRest
    /\ NothingAggregated
    /\ ServiceUnused
    /\ mainPc = "serving"
    /\ addPc = [k \in {"test"} |-> "idle"]
    /\ addArg = [k \in {"test"} |-> NoResult]
    /\ addNew = [k \in {"test"} |-> 0]
    /\ cArr = << >>
    /\ cLen = 0
    /\ stats = ZeroStats
    /\ added = {}

\* the server calls the handler of a protocol with a request, in a goroutine
\* of its own
HandlerBegin(h) ==
    /\ handling[h].pc = "idle"
    /\ Begun < MaxHandled
    /\ \E call \in HandlerCalls :
         handling' = [handling EXCEPT ![h] =
                        [pc |-> "run", protocol |-> call.protocol,
                         todo |-> call.todo, counted |-> << >>]]
    /\ UNCHANGED << metrics, snap, svcVars, idLog, callVars,
                    mainPc, mainVars, pctVars, runVars >>
    /\ UNCHANGED collectorVars

\* the handler's next h.metrics.Increment...(): the Add(1) on the counter
HandlerIncrement(h) ==
    /\ handling[h].pc = "run"
    /\ handling[h].todo # << >>
    /\ metrics' = [metrics EXCEPT
                     ![Head(handling[h].todo)][handling[h].protocol] = @ + 1]
    /\ handling' = [handling EXCEPT
                      ![h].todo = Tail(@),
                      ![h].counted = Append(@, Head(handling[h].todo))]
    /\ UNCHANGED << snap, svcVars, idLog, callVars,
                    mainPc, mainVars, pctVars, runVars >>
    /\ UNCHANGED collectorVars

\* the handler returns
HandlerReturn(h) ==
    /\ handling[h].pc = "run"
    /\ handling[h].todo = << >>
    /\ handling' = [handling EXCEPT ![h] = NoCall]
    /\ UNCHANGED << metrics, snap, svcVars, idLog, callVars,
                    mainPc, mainVars, pctVars, runVars >>
    /\ UNCHANGED collectorVars

\* Snapshot: the counters in the order in which it loads them
LoadOrder ==
    << << "requests", "rest" >>, << "requests", "jsonrpc" >>,
       << "requests", "grpc" >>, << "errors", "rest" >>,
       << "errors", "jsonrpc" >>, << "errors", "grpc" >> >>

\* Snapshot: the Snapshot it returns for the six values it loaded, without
\* the uptime
SnapshotOf(l) ==
    [RESTRequests |-> l[1], RESTErrors |-> l[4],
     JSONRPCRequests |-> l[2], JSONRPCErrors |-> l[5],
     GRPCRequests |-> l[3], GRPCErrors |-> l[6],
     TotalRequests |-> l[1] + l[2] + l[3],
     TotalErrors |-> l[4] + l[5] + l[6]]

\* a goroutine calls c.Snapshot()
SnapshotCall ==
    /\ snap.pc = 0
    /\ snap.out = << >>
    /\ snap' = [snap EXCEPT !.pc = 1]
    /\ UNCHANGED << metrics, handling, svcVars, idLog, callVars,
                    mainPc, mainVars, pctVars, runVars >>
    /\ UNCHANGED collectorVars

\* Snapshot: the next of rest := c.restRequests.Load() ...
\* grpcErr := c.grpcErrors.Load()
SnapshotLoad ==
    /\ snap.pc \in 1 .. 6
    /\ snap' = [snap EXCEPT
                  !.pc = @ + 1,
                  !.loaded = Append(@, metrics[LoadOrder[snap.pc][1]]
                                              [LoadOrder[snap.pc][2]])]
    /\ UNCHANGED << metrics, handling, svcVars, idLog, callVars,
                    mainPc, mainVars, pctVars, runVars >>
    /\ UNCHANGED collectorVars

\* Snapshot: return Snapshot{...}
SnapshotReturn ==
    /\ snap.pc = 7
    /\ snap' = [pc |-> 0, loaded |-> << >>, out |-> << SnapshotOf(snap.loaded) >>]
    /\ UNCHANGED << metrics, handling, svcVars, idLog, callVars,
                    mainPc, mainVars, pctVars, runVars >>
    /\ UNCHANGED collectorVars

NextMetrics ==
    \/ \E h \in Handlers : HandlerBegin(h)
    \/ \E h \in Handlers : HandlerIncrement(h)
    \/ \E h \in Handlers : HandlerReturn(h)
    \/ SnapshotCall
    \/ SnapshotLoad
    \/ SnapshotReturn

SpecMetrics == InitMetrics /\ [][NextMetrics]_vars

----------------------------------------------------------------------------
(* Claims *)

RunReturned == mainPc \in {"returned", "aggregated"}

\* the requests the results of the Collector came from
ResultReqs == { Results[i].req : i \in 1 .. cLen }

\* C1: once Run has returned, the Collector holds exactly one result for
\* every measurement request whose send returned: none lost, none twice.
C1_NoResultLostOrDuplicated ==
    RunReturned => /\ cLen = Cardinality(completed)
                   /\ ResultReqs = completed

\* C1 witness: Run has returned a Collector holding the results of two
\* different workers.
C1_Witness ==
    /\ RunReturned
    /\ cLen >= 2
    /\ \E i, j \in 1 .. cLen : Results[i].req.worker # Results[j].req.worker

\* C2: warmup requests never produce a result: a warmup worker never has a
\* result to send, the warmup channel stays empty, and whatever the Collector
\* holds or is being given came from a measurement request.
C2_NoWarmupResult ==
    /\ \A w \in Workers : wpc["warmup"][w] # "emit"
    /\ resultChan["warmup"] = << >>
    /\ \A i \in 1 .. Len(cArr) : cArr[i].req.phase = "measure"
    /\ \A r \in added : r.req.phase = "measure"

\* C2 witness: a warmup worker is back at its select after a completed
\* request, and nothing was emitted.
C2_Witness ==
    \E w \in Workers :
        /\ wpc["warmup"][w] = "select"
        /\ requestID["warmup"][w] >= 1

\* C3: a request in flight when the phase deadline fires is not aborted: no
\* send returns the error of the phase context.
C3_NoForcedAbort ==
    \A p \in Phases, w \in Workers :
        wpc[p][w] = "sent" => err[p][w] # ErrContext

\* C4: once all concurrent calls of Add have returned, the Collector holds
\* exactly the results that were added, each once.
C4_ConcurrentAddSafe ==
    (\A k \in DOMAIN addPc : addPc[k] = "idle")
        => /\ cLen = Cardinality(added)
           /\ { Results[i] : i \in 1 .. cLen } = added

\* C5: a JSON-RPC request answered with an error object is recorded as a
\* failed request.
C5_JSONRPCErrorObjectFails ==
    \A p \in Phases, w \in Workers :
        ( /\ cfg.Protocol = "jsonrpc"
          /\ wpc[p][w] = "emit"
          /\ HandleRPC(Request(w, result[p][w].req.seq)).error # << >> )
        => ~result[p][w].Success

\* C6: the phases are sequential: while any measurement worker has been
\* started or any measurement request has been issued, every warmup worker
\* has returned.
C6_PhasesSequential ==
    ( \/ \E w \in Workers : wpc["measure"][w] # "idle"
      \/ \E t \in inflight \cup completed : t.phase = "measure"
      \/ ctxState["measure"] # "none" )
    => \A w \in Workers : wpc["warmup"][w] = "done"

\* C6 witness: a measurement request is in flight.
C6_Witness ==
    \E w \in Workers :
        /\ wpc["measure"][w] = "send"
        /\ Tag("measure", w, requestID["measure"][w]) \in inflight

\* C7: once Run has returned, every measurement worker has returned, the
\* drain loop has ended and no Add is in progress; and Aggregate sees the
\* whole result set.
C7_CollectorHandedOverComplete ==
    /\ RunReturned =>
         /\ \A w \in Workers : wpc["measure"][w] = "done"
         /\ drainPc["measure"] = "done"
         /\ \A c \in DOMAIN addPc : addPc[c] = "idle"
         /\ resultChan["measure"] = << >>
    /\ mainPc = "aggregated" => stats.TotalRequests = Cardinality(completed)

\* C7 witness: main has aggregated a Collector that was given results.
C7_Witness ==
    /\ mainPc = "aggregated"
    /\ stats.TotalRequests >= 2

\* C8: a failed send is not fatal: the worker whose send returned an error
\* goes on, in the measurement phase with one failed result for that request
\* and in the warmup phase straight to its next deadline check; Run never
\* fails and returns a nil error.
C8_FailureNotFatal ==
    [][ /\ \A p \in Phases, w \in Workers :
             ( /\ wpc[p][w] = "sent"
               /\ err[p][w] # Nil
               /\ wpc'[p][w] # "sent" )
             => IF collectorArg[p] # Nil
                THEN /\ wpc'[p][w] = "emit"
                     /\ ~result'[p][w].Success
                     /\ result'[p][w].Error = err[p][w]
                     /\ result'[p][w].req = Tag(p, w, requestID[p][w])
                ELSE wpc'[p][w] = "select"
        /\ mainPc' # "failed"
        /\ mainPc' = "returned" => runErr' = Nil
      ]_vars

\* C8 witness: Run has returned a Collector in which a worker's failed
\* request is followed by a later request of the same worker.
C8_Witness ==
    /\ mainPc = "returned"
    /\ runErr = Nil
    /\ \E i, j \in 1 .. cLen :
         /\ ~Results[i].Success
         /\ Results[j].req.worker = Results[i].req.worker
         /\ Results[j].req.seq > Results[i].req.seq

\* C9: a worker has at most one request in flight, the one its requestID
\* names, and a phase has at most Concurrency requests in flight.
C9_OneInFlightPerWorker ==
    /\ \A p \in Phases, w \in Workers :
         { t \in inflight : t.phase = p /\ t.worker = w }
             \subseteq { Tag(p, w, requestID[p][w]) }
    /\ \A p \in Phases :
         Cardinality({ t \in inflight : t.phase = p }) <= Concurrency

\* C9 witness: a worker has its second request in flight while another
\* worker has returned from a request.
C9_Witness ==
    \E w \in Workers :
        /\ wpc["measure"][w] = "send"
        /\ requestID["measure"][w] >= 2
        /\ Cardinality(inflight) = 1

\* C10: Aggregate returns TotalRequests = SuccessfulRequests + FailedRequests
\* and ErrorRate = FailedRequests / TotalRequests, and ErrorRate = 0 when
\* TotalRequests = 0.
C10_CountsAndErrorRate ==
    mainPc = "aggregated" =>
        /\ stats.TotalRequests = stats.SuccessfulRequests + stats.FailedRequests
        /\ stats.TotalRequests = cLen
        /\ IsNumber(stats.ErrorRate)
        /\ stats.ErrorRate.num * stats.TotalRequests
               = stats.FailedRequests * stats.ErrorRate.den
        /\ stats.TotalRequests = 0 => stats.ErrorRate = Zero

\* C10 witness: Aggregate has run over successful and failed results.
C10_Witness ==
    /\ mainPc = "aggregated"
    /\ stats.SuccessfulRequests >= 2
    /\ stats.FailedRequests >= 1

\* the latency statistics of an AggregatedStats
LatencyFields(s) == << s.P50, s.P90, s.P95, s.P99, s.Mean, s.Min, s.Max >>

\* C11: when the Collector holds results and none of them is successful,
\* Aggregate returns ErrorRate = 1, TotalRequests = FailedRequests = the
\* number of results, and P50, P90, P95, P99, Mean, Min and Max all 0.
C11_OnlyFailures ==
    ( /\ mainPc = "aggregated"
      /\ cLen > 0
      /\ \A i \in 1 .. cLen : ~Results[i].Success )
    => /\ stats.ErrorRate = [num |-> 1, den |-> 1]
       /\ stats.TotalRequests = cLen
       /\ stats.FailedRequests = cLen
       /\ \A i \in 1 .. 7 : LatencyFields(stats)[i] = [num |-> 0, den |-> 1]

\* C11 witness: Aggregate has run over two or more failed results, one of
\* them with a latency above 0.
C11_Witness ==
    /\ mainPc = "aggregated"
    /\ cLen >= 2
    /\ \A i \in 1 .. cLen : ~Results[i].Success
    /\ \E i \in 1 .. cLen : Results[i].LatencyMs > 0

\* C12: Aggregate on a Collector that was given no result returns 0 in every
\* field, RPS included, whatever the duration, the zero duration too.
C12_EmptyCollectorAllZero ==
    ( /\ mainPc = "aggregated"
      /\ cLen = 0 )
    => /\ stats.TotalRequests = 0
       /\ stats.SuccessfulRequests = 0
       /\ stats.FailedRequests = 0
       /\ stats.RPS = [num |-> 0, den |-> 1]
       /\ stats.ErrorRate = [num |-> 0, den |-> 1]
       /\ \A i \in 1 .. 7 : LatencyFields(stats)[i] = [num |-> 0, den |-> 1]

\* C12 witness: Aggregate has been called with the zero duration on a
\* Collector without results.
C12_Witness ==
    /\ mainPc = "aggregated"
    /\ cLen = 0
    /\ Len(cArr) = 0
    /\ aggDuration = 0

\* C13: on a non-empty ascending list of n latencies and p in {50, 90, 95,
\* 99}, with i = p/100 * (n-1), lo = floor(i), hi = ceil(i), frac = i - lo,
\* percentile returns sorted[lo] when lo = hi and
\* sorted[lo]*(1-frac) + sorted[hi]*frac otherwise; on the list 1..10 it
\* returns 5.5, 9.1, 9.55 and 9.91.
C13_PercentileInterpolates ==
    ( /\ mainPc = "called"
      /\ Len(pSorted) > 0 )
    => LET n == Len(pSorted)
           i100 == pArg * (n - 1)
           lo == i100 \div 100
           frac100 == i100 - 100 * lo
           hi == IF frac100 = 0 THEN lo ELSE lo + 1
       IN  /\ pRet.den > 0
           /\ IF lo = hi
              THEN pRet = [num |-> pSorted[lo + 1], den |-> 1]
              ELSE pRet.num * 100
                     = ( pSorted[lo + 1] * (100 - frac100)
                         + pSorted[hi + 1] * frac100 ) * pRet.den
           /\ ( n = 10 /\ \A k \in 1 .. 10 : pSorted[k] = k )
              => /\ pArg = 50 => pRet = [num |-> 11, den |-> 2]
                 /\ pArg = 90 => pRet = [num |-> 91, den |-> 10]
                 /\ pArg = 95 => pRet = [num |-> 191, den |-> 20]
                 /\ pArg = 99 => pRet = [num |-> 991, den |-> 100]

\* C13 witness: percentile has been called with p = 99 on the list 1..10.
C13_Witness ==
    /\ mainPc = "called"
    /\ Len(pSorted) = 10
    /\ \A k \in 1 .. 10 : pSorted[k] = k
    /\ pArg = 99

\* the successful results of the Collector, in order
SuccessfulResults == SelectSeq(Results, LAMBDA r : r.Success)

\* C14: Aggregate returns RPS = successful count / duration in seconds, and
\* Min, Max, Mean and the percentiles of the latencies of the successful
\* results only: RPS and the latency statistics are those of the Collector
\* without its failed results.
C14_SuccessfulOnly ==
    mainPc = "aggregated" =>
        LET ok == SuccessfulResults
            without == Aggregate(ok, aggDuration)
        IN  /\ cLen > 0 => stats.RPS = FDiv(Len(ok), aggDuration)
            /\ Len(ok) > 0 =>
                 /\ \A i \in 1 .. Len(ok) :
                      /\ stats.Min.num <= ok[i].LatencyMs * stats.Min.den
                      /\ stats.Max.num >= ok[i].LatencyMs * stats.Max.den
                 /\ \E i \in 1 .. Len(ok) :
                      stats.Min = [num |-> ok[i].LatencyMs, den |-> 1]
                 /\ \E i \in 1 .. Len(ok) :
                      stats.Max = [num |-> ok[i].LatencyMs, den |-> 1]
            /\ stats.RPS = without.RPS
            /\ LatencyFields(stats) = LatencyFields(without)

\* C15: Aggregate does not depend on the order of arrival: whatever results
\* the Collector holds, in whatever order, Aggregate with the same duration
\* returns the same AggregatedStats when any two neighbours among them change
\* places; every permutation is a chain of such exchanges.
C15_OrderInsignificant ==
    mainPc = "aggregated" =>
        \A i \in 1 .. cLen - 1 :
            Aggregate([Results EXCEPT ![i] = Results[i + 1],
                                      ![i + 1] = Results[i]],
                      aggDuration) = stats

\* C15 witness: Aggregate has run over three or more results whose successful
\* latencies did not arrive in ascending order.
C15_Witness ==
    /\ mainPc = "aggregated"
    /\ cLen >= 3
    /\ \E i, j \in 1 .. cLen :
         /\ i < j
         /\ Results[i].Success
         /\ Results[j].Success
         /\ Results[i].LatencyMs > Results[j].LatencyMs

NothingStarted ==
    /\ issued = 0
    /\ inflight = {}
    /\ completed = {}
    /\ \A p \in Phases :
         /\ ctxState[p] = "none"
         /\ resultChan[p] = << >>
         /\ \A w \in Workers : wpc[p][w] = "idle" /\ requestID[p][w] = 0

\* C17: when the grpc connection cannot be established, NewRunner returns
\* an error before any phase starts: no warmup or measurement request is ever
\* issued, and the run stops there, with the failure status.
C17_ConnectFailureStopsRun ==
    newErr # Nil =>
        /\ cfg.Protocol = "grpc"
        /\ newErr = ErrConnect
        /\ NothingStarted
        /\ mainPc = "exited"
        /\ exitStatus = 1
        /\ cLen = 0
        /\ outFile = << >>

\* C17 witness: the process has ended on the error NewRunner returned.
C17_Witness ==
    /\ newErr = ErrConnect
    /\ grpcConn = Nil
    /\ mainPc = "exited"

\* C18: with a protocol other than rest, jsonrpc and grpc, a mode other
\* than cpu and io, or an empty -output, the load generator stops before the
\* Runner is constructed: no request is issued, no statistics are computed,
\* no result file is written.
C18_ConfigErrorStops ==
    ( \/ cfg.Protocol \notin {"rest", "jsonrpc", "grpc"}
      \/ cfg.Mode \notin {"cpu", "io"}
      \/ output = "" )
    => /\ mainPc \in {"main", "exited"}
       /\ mainPc = "exited" => exitStatus = 1
       /\ newErr = Nil
       /\ grpcConn = Nil
       /\ NothingStarted
       /\ cLen = 0
       /\ stats = ZeroStats
       /\ aggDuration = 0
       /\ outFile = << >>

\* C18 witness: the process has ended on a missing -output, the protocol and
\* the mode being accepted ones.
C18_Witness ==
    /\ mainPc = "exited"
    /\ output = ""
    /\ cfg.Protocol = "grpc"
    /\ cfg.Mode = "cpu"

\* C19: when SaveToFile succeeds, the exit status is non-zero exactly when
\* the aggregated FailedRequests is above 0, and in both cases the result
\* record, with the aggregated statistics, is in the output file before the
\* process exits.
C19_ExitStatusTellsFailures ==
    /\ mainPc = "saved" =>
         /\ Len(outFile) = 1
         /\ outFile[1].Stats = stats
         /\ outFile[1].Protocol = cfg.Protocol
    /\ ( mainPc = "exited" /\ outFile # << >> ) =>
         /\ outFile[1].Stats = stats
         /\ exitStatus # 0 <=> stats.FailedRequests > 0

\* C19 witness: a run without a failed request has ended with status 0 and
\* its record in the output file.
C19_Witness ==
    /\ mainPc = "exited"
    /\ exitStatus = 0
    /\ Len(outFile) = 1
    /\ outFile[1].Stats.SuccessfulRequests >= 2

\* the results that exist for request t: held by a worker, in a channel,
\* being added, or in the Collector
ResultsOf(t) ==
    Cardinality({ w \in Workers : /\ wpc[t.phase][w] = "emit"
                                   /\ result[t.phase][w].req = t })
    + Cardinality({ i \in 1 .. Len(resultChan[t.phase]) :
                      resultChan[t.phase][i].req = t })
    + Cardinality({ c \in DOMAIN addPc : addPc[c] # "idle" /\ addArg[c].req = t })
    + Cardinality({ i \in 1 .. cLen : Results[i].req = t })

\* C20: there are no retries: a worker sends only from its select, under a
\* request identifier one above its last one that no request had before; a
\* send returns once; after a failed send the worker does not send again
\* under the same identifier; and a failed measurement request has exactly
\* one result, a failed one, once the worker has recorded it.
C20_NoRetry ==
    [][ /\ \A p \in Phases, w \in Workers :
          /\ ( wpc'[p][w] = "send" /\ wpc[p][w] # "send" )
             => /\ wpc[p][w] = "select"
                /\ requestID'[p][w] = requestID[p][w] + 1
                /\ Tag(p, w, requestID'[p][w]) \notin inflight \cup completed
                /\ inflight' = inflight \cup {Tag(p, w, requestID'[p][w])}
          /\ ( wpc[p][w] = "send" /\ wpc'[p][w] # "send" )
             => /\ wpc'[p][w] = "sent"
                /\ requestID'[p][w] = requestID[p][w]
                /\ Tag(p, w, requestID[p][w]) \notin inflight'
          /\ ( wpc[p][w] = "sent" /\ wpc'[p][w] # "sent" )
             => /\ wpc'[p][w] \in {"emit", "select"}
                /\ requestID'[p][w] = requestID[p][w]
                /\ inflight' = inflight
                /\ ( p = "measure" /\ err[p][w] # Nil )
                   => /\ ~result'[p][w].Success
                      /\ ResultsOf(Tag(p, w, requestID[p][w]))' = 1
      ]_vars

\* C20 witness: Run has returned a Collector with exactly one result, a
\* failed one, for a request whose send failed, and the worker of that
\* request went on to its next request.
C20_Witness ==
    /\ mainPc = "returned"
    /\ \E i \in 1 .. cLen :
         /\ Results[i].Error = ErrTransport
         /\ ResultsOf(Results[i].req) = 1
         /\ Tag("measure", Results[i].req.worker, Results[i].req.seq + 1)
                \in completed

\* C24: a phase lasts at least its duration: runPhase has passed wg.Wait()
\* (it is closing the channel or waiting for the drain goroutine, the last
\* steps before it returns) only when the deadline of the phase has fired.
C24_PhaseLastsItsDuration ==
    mainPc \in {"close", "collectorWait"} => ctxState[phase] = "done"

\* C24 witness: the measurement phase is past wg.Wait() and about to
\* return, with a result of its workers collected.
C24_Witness ==
    /\ mainPc = "collectorWait"
    /\ phase = "measure"
    /\ drainPc["measure"] = "done"
    /\ cLen >= 1

\* the workers of phase p that have been started
Started(p) == { w \in Workers : wpc[p][w] # "idle" }

\* C29: each phase launches exactly Concurrency workers with the ids
\* 0 .. Concurrency-1: while runPhase starts workers the ones started are
\* 0 .. i-1, and once it waits they are 0 .. Concurrency-1, started by
\* Concurrency passes of the loop.  A worker is started only by that loop,
\* under the loop's index, so none is started once runPhase waits.  All
\* workers share the one deadline of their phase: a worker returns only
\* when the context of its phase, the only one of that phase, is done.
C29_ExactlyConcurrencyWorkers ==
    [][ /\ mainPc' = "spawn"
           => /\ spawnI' <= Concurrency
              /\ Started(phase)' = 0 .. (spawnI' - 1)
        /\ mainPc' \in {"wait", "close", "collectorWait", "phaseDone"}
           => /\ spawnI' = Concurrency
              /\ Started(phase)' = 0 .. (Concurrency - 1)
              /\ Cardinality(Started(phase)') = Concurrency
        /\ \A p \in Phases, w \in Workers :
             /\ ( wpc[p][w] = "idle" /\ wpc'[p][w] # "idle" )
                => /\ mainPc = "spawn"
                   /\ phase = p
                   /\ w = spawnI
                   /\ wpc'[p][w] = "select"
             /\ ( wpc[p][w] # "done" /\ wpc'[p][w] = "done" )
                => ctxState[p] = "done"
      ]_vars

\* C29 witness: runPhase waits for the workers of the measurement phase,
\* every one of them started, and the deadline has not fired yet.
C29_Witness ==
    /\ mainPc = "wait"
    /\ phase = "measure"
    /\ Started("measure") = 0 .. (Concurrency - 1)
    /\ ctxState["measure"] = "armed"
    /\ \E w \in Workers : wpc["measure"][w] = "send"

\* the periods N of the failures that are told apart within MaxResults results
Periods == 1 .. (MaxResults + 1)

\* exactly every n-th of the collected results failed
EveryNthFails(n) ==
    \A i \in 1 .. cLen : Results[i].Success <=> (i % n # 0)

\* the error rate is 1/n if total is a multiple of n, and is less than
\* 1/total away from 1/n otherwise
NearOneOver(rate, n, total) ==
    /\ IsNumber(rate)
    /\ IF total % n = 0
       THEN rate.num * n = rate.den
       ELSE Abs(rate.num * n - rate.den) * total < rate.den * n

\* C25: when exactly every N-th of the collected results failed and there
\* is at least one result, the aggregated error rate is 1/N if the number
\* of results is a multiple of N, and otherwise differs from 1/N by less
\* than 1 over the number of results.
C25_ErrorRateOneOverN ==
    mainPc = "aggregated" =>
        \A n \in Periods :
            ( EveryNthFails(n) /\ cLen > 0 )
                => NearOneOver(stats.ErrorRate, n, stats.TotalRequests)

\* C25 as the specification states it, the empty sequence of results
\* included: zero is a multiple of every N.
C25_ErrorRateOneOverNOrEmpty ==
    mainPc = "aggregated" =>
        \A n \in Periods :
            EveryNthFails(n) => NearOneOver(stats.ErrorRate, n, cLen)

\* C25 witness: Aggregate has run over four results of which the second and
\* the fourth failed, or over three results of which the second failed.
C25_Witness ==
    /\ mainPc = "aggregated"
    /\ cLen >= 3
    /\ EveryNthFails(2)
    /\ stats.ErrorRate \in { Rat(1, 2), Rat(1, 3) }

\* the results of phase p that have been sent on the channel, in the order
\* of their sending: in the Collector, in the hands of Add, in the channel
Pipeline(p) ==
    (IF p = "measure" THEN Results ELSE << >>)
        \o (IF addPc[p] # "idle" THEN << addArg[p] >> ELSE << >>)
        \o resultChan[p]

\* Success, Error and the times of a result r built after a send that
\* returned e
FlagsAndTimes(r, e) ==
    /\ r.Success <=> (e = Nil)
    /\ r.Error # "" => ~r.Success
    /\ r.EndTime >= r.StartTime
    /\ r.LatencyMs >= 0

\* a worker builds a result
Builds(p, w) == wpc[p][w] = "sent" /\ wpc'[p][w] = "emit"

\* nothing but the sending of a result changes the results that have been
\* sent, and a sent result is the one the worker built
SentResultsKept(p) ==
    IF \E w \in Workers : wpc[p][w] = "emit" /\ wpc'[p][w] # "emit"
    THEN \E w \in Workers :
            /\ wpc[p][w] = "emit"
            /\ Pipeline(p)' = Append(Pipeline(p), result[p][w])
    ELSE /\ Pipeline(p)' = Pipeline(p)
         /\ \A w \in Workers :
              ( wpc[p][w] = "emit" /\ wpc'[p][w] = "emit" )
                 => result'[p][w] = result[p][w]

\* C30: every result a worker emits has Success true iff the send returned
\* no error, an Error text only when Success is false, EndTime not before
\* StartTime, and as LatencyMs the whole microseconds from StartTime to
\* EndTime, in milliseconds, which is not negative and less than a
\* microsecond below EndTime - StartTime; a result is not modified after
\* it is sent on the channel.
C30_ResultFields ==
    [][ \A p \in Phases :
          /\ \A w \in Workers :
               Builds(p, w) =>
                  LET r == result'[p][w]
                  IN  /\ FlagsAndTimes(r, err[p][w])
                      /\ r.LatencyMs * 1000 = Microseconds(r.EndTime - r.StartTime)
                      /\ (r.EndTime - r.StartTime) - r.LatencyMs * 1000000
                            \in 0 .. 999
          /\ SentResultsKept(p)
      ]_vars

\* C30 as the specification states it: LatencyMs is EndTime - StartTime.
C30_LatencyIsEndMinusStart ==
    [][ \A p \in Phases :
          /\ \A w \in Workers :
               Builds(p, w) =>
                  LET r == result'[p][w]
                  IN  /\ FlagsAndTimes(r, err[p][w])
                      /\ r.LatencyMs * 1000000 = r.EndTime - r.StartTime
          /\ SentResultsKept(p)
      ]_vars

\* C30 witness: Run has returned a Collector with a successful and a failed
\* result, both sent on the channel by workers, whose EndTime is a
\* millisecond and half a microsecond after StartTime.
C30_Witness ==
    /\ mainPc = "returned"
    /\ \E i, j \in 1 .. cLen :
         /\ Results[i].Success
         /\ Results[i].Error = ""
         /\ ~Results[j].Success
         /\ Results[j].Error # ""
         /\ Results[i].EndTime - Results[i].StartTime = 1000500
         /\ Results[j].LatencyMs = 1

\* C21: every request of a run carries an identifier of its own: a worker
\* sends a request only under an identifier that no request was sent under
\* before, by any worker and in any phase of the run.
C21_UniqueRequestIDs ==
    [][ \A p \in Phases, w \in Workers :
          ( wpc[p][w] # "send" /\ wpc'[p][w] = "send" )
             => /\ idLog.on
                /\ ReqID(p, w, requestID'[p][w]) \in idLog'.ids
                /\ ReqID(p, w, requestID'[p][w]) \notin idLog.ids
      ]_vars

\* C26: Execute returns an error iff the request id is empty, or the mode
\* is neither cpu nor io, or the work factor is negative, or the payload
\* size is negative; a request with work factor 0 and payload size 0 is
\* accepted if its id and mode are valid; with an error no workload is
\* executed and no response is returned, and without one there is a
\* response and the workload of the request's mode was executed.
C26_ExecuteValidates ==
    svcExec # << >> =>
        LET e == svcExec[1]
            invalid == \/ svcReq.request_id = << >>
                       \/ svcReq.mode \notin {"cpu", "io"}
                       \/ svcReq.work_factor < 0
                       \/ svcReq.payload_size_bytes < 0
        IN  /\ (e.err # Nil) <=> invalid
            /\ ( /\ svcReq.request_id # << >>
                 /\ svcReq.mode \in {"cpu", "io"}
                 /\ svcReq.work_factor = 0
                 /\ svcReq.payload_size_bytes = 0 ) => e.err = Nil
            /\ e.err # Nil => ( e.resp = << >> /\ e.work = << >> )
            /\ e.err = Nil => ( Len(e.resp) = 1 /\ Len(e.work) = 1 )

\* C26 witness: Execute has rejected a request whose only fault is a
\* negative payload size.
C26_Witness ==
    /\ svcExec # << >>
    /\ svcExec[1].err # Nil
    /\ svcReq.request_id # << >>
    /\ svcReq.mode = "io"
    /\ svcReq.work_factor = 0
    /\ svcReq.payload_size_bytes < 0

\* what the handler of protocol p answered
ReplyOf(p) == svcReply[p][1]

\* a response without its protocol label
Unlabelled(resp) == [resp EXCEPT !.protocol = ""]

\* C27: the three handlers execute the same logic: given the same request,
\* they accept it alike; when they accept it each returns one response with
\* the request's id, mode, work factor and payload size, the same result
\* string as the others, and its own protocol label; when they reject it
\* none returns a response.
C27_HandlersAgree ==
    ( \A p \in Protocols : svcReply[p] # << >> ) =>
        /\ \A p \in Protocols : ReplyOf(p).accepted = ReplyOf("rest").accepted
        /\ \A p \in Protocols :
             IF ReplyOf(p).accepted
             THEN /\ Len(ReplyOf(p).response) = 1
                  /\ ReplyOf(p).response[1].protocol = p
                  /\ ReplyOf(p).response[1].request_id = svcReq.request_id
                  /\ ReplyOf(p).response[1].mode = svcReq.mode
                  /\ ReplyOf(p).response[1].work_factor = svcReq.work_factor
                  /\ ReplyOf(p).response[1].payload_size_bytes
                        = svcReq.payload_size_bytes
                  /\ Unlabelled(ReplyOf(p).response[1])
                        = Unlabelled(ReplyOf("rest").response[1])
             ELSE ReplyOf(p).response = << >>

\* C27 witness: the three handlers have accepted the same io request and
\* answered with the same result string.
C27_Witness ==
    /\ \A p \in Protocols :
         /\ svcReply[p] # << >>
         /\ ReplyOf(p).accepted
         /\ ReplyOf(p).response[1].result = << "slept_", 15, "ms" >>
    /\ svcReq.payload_size_bytes = 1

\* C28: in io mode Execute sleeps for the work factor in milliseconds: the
\* sleeps executeIOWork asks for add up to the work factor, and the result
\* is slept_<work factor>ms.
C28_IOSleepsWorkFactor ==
    ( svcExec # << >> /\ svcReq.mode = "io" /\ svcExec[1].err = Nil ) =>
        /\ Sum(svcExec[1].work[1].sleeps) = svcReq.work_factor
        /\ svcExec[1].resp[1].result = << "slept_", svcReq.work_factor, "ms" >>

\* C22: a worker's send of a result does not block for ever: the channel
\* never holds more than Concurrency * 10 results, and under fair
\* scheduling every worker that is at its send, on a full channel or not,
\* completes it and is back at its select.
C22_SendCompletes ==
    /\ [](\A p \in Phases : Len(resultChan[p]) <= Concurrency * ChanFactor)
    /\ \A p \in Phases, w \in Workers :
         (wpc[p][w] = "emit") ~> (wpc[p][w] = "select")

\* C22 witness: a worker that was at its send on the full channel has sent
\* its result, which filled the channel again, while another worker is
\* still at its send.
C22_Witness ==
    /\ Len(resultChan["measure"]) = Cap
    /\ requestID["measure"][0] = Cap + 1
    /\ wpc["measure"][0] = "select"
    /\ \E w \in Workers : wpc["measure"][w] = "emit"

\* runPhase is between its start and its return
InRunPhase == mainPc \in {"spawn", "wait", "close", "collectorWait"}

\* phase p has come to its end: every worker has left its loop, the channel
\* is closed, the drain loop, if there is one, has ended, and runPhase has
\* returned
PhaseOver(p) ==
    /\ \A w \in Workers : wpc[p][w] = "done"
    /\ chanClosed[p]
    /\ drainPc[p] = ( IF collectorArg[p] # Nil THEN "done" ELSE "none" )
    /\ ~( phase = p /\ InRunPhase )

\* C23: every phase terminates: under fair scheduling, and with every send
\* returning, once the deadline of a phase has fired while runPhase runs it,
\* every worker leaves its loop, the channel is closed, the drain loop ends
\* and runPhase returns, in the warmup phase as in the measurement phase.
C23_PhaseTerminates ==
    \A p \in Phases :
        ( phase = p /\ InRunPhase /\ ctxState[p] = "done" ) ~> PhaseOver(p)

\* C23 witness: the measurement phase has returned after its deadline, with
\* a result collected, and the warmup phase before it.
C23_Witness ==
    /\ mainPc = "phaseDone"
    /\ phase = "measure"
    /\ PhaseOver("measure")
    /\ PhaseOver("warmup")
    /\ collectorArg["warmup"] = Nil
    /\ cLen >= 1

\* a <= b for two finite float64 values
LessEq(a, b) == a.num * b.den <= b.num * a.den

C33_OneLateRequest ==
    \A w \in Workers : late[w] <= 1

\* C33 witness: the deadline fired between a worker's select and the start of
\* its request, and the worker has returned after that one request.
C33_Witness ==
    \E w \in Workers :
        /\ phase = "measure"
        /\ late[w] = 1
        /\ wpc["measure"][w] = "done"

C37_NoWorkerReturnsAtOnce ==
    cfg.Concurrency <= 0 =>
        /\ mainPc # "panicked"
        /\ \A p \in Phases, w \in Workers : wpc[p][w] = "idle"
        /\ mainPc = "wait" => WorkersDone(phase)
        /\ RunReturned => cLen = 0
        /\ mainPc = "aggregated" => stats = ZeroStats

\* C34: the result channel of a phase is closed only after every worker of the
\* phase has returned, and once: while the channel is closed no worker of the
\* phase is running, so none can send on it, and runPhase is past its close
\* statement, so it cannot close it again.
C34_ClosedAfterWorkers ==
    \A p \in Phases :
        chanClosed[p] =>
            /\ \A w \in Workers : wpc[p][w] = "done"
            /\ phase = p => mainPc \notin {"spawn", "wait", "close"}

\* C34 witness: the channel of the measurement phase was closed after both
\* workers had sent results on it, one of them for a request begun after the
\* deadline had fired.
C34_Witness ==
    /\ chanClosed["measure"]
    /\ phase = "measure"
    /\ \E w \in Workers : late[w] = 1
    /\ \E i, j \in 1 .. cLen : Results[i].req.worker # Results[j].req.worker

\* C35: the Collector is written by one goroutine only: Add is never called
\* in the warmup phase, a call of Add is in progress only in the drain
\* goroutine of the running measurement phase, so there is at most one at a
\* time, and the store of the Collector changes only in a step of that call
\* or when Run makes the Collector.
C35_SingleWriter ==
    [][ /\ addPc'["warmup"] = "idle"
        /\ addPc'["measure"] # "idle"
              => /\ drainPc'["measure"] = "loop"
                 /\ phase' = "measure"
                 /\ mainPc' \in {"spawn", "wait", "close", "collectorWait"}
        /\ ( cArr' # cArr \/ cLen' # cLen )
              => \/ addPc["measure"] # "idle" /\ addPc'["measure"] # addPc["measure"]
                 \/ mainPc = "phaseDone" /\ phase = "warmup" /\ cLen' = 0
      ]_vars

\* C35 witness: the drain goroutine of the measurement phase is in Add,
\* between the append and the store of its result, while a worker is running.
C35_Witness ==
    /\ addPc["measure"] = "store"
    /\ \E w \in Workers : wpc["measure"][w] \in {"send", "sent", "emit"}

\* the answer of the REST handler
RESTReply == svcReply["rest"][1]

\* the answer of the JSON-RPC handler
RPCReply == svcReply["jsonrpc"][1]

\* C32: the REST handler answers a request that is not a POST with 405,
\* whether or not its body decodes, a POST whose body does not decode with
\* 400, a POST that Execute rejects with 400, and a POST that Execute accepts
\* with 200 and a response that echoes the request id and names the protocol
\* rest; only the accepted request gets a response body.
C32_RESTStatus ==
    svcReply["rest"] # << >> =>
        /\ svcReq.method # "POST"
              => RESTReply.status = StatusMethodNotAllowed /\ RESTReply.body = << >>
        /\ ( svcReq.method = "POST" /\ ~svcReq.decodes )
              => RESTReply.status = StatusBadRequest /\ RESTReply.body = << >>
        /\ ( svcReq.method = "POST" /\ svcReq.decodes /\ Execute(svcReq.body) # Nil )
              => RESTReply.status = StatusBadRequest /\ RESTReply.body = << >>
        /\ ( svcReq.method = "POST" /\ svcReq.decodes /\ Execute(svcReq.body) = Nil )
              => /\ RESTReply.status = StatusOK
                 /\ Len(RESTReply.body) = 1
                 /\ RESTReply.body[1].request_id = svcReq.body.request_id
                 /\ RESTReply.body[1].protocol = "rest"

\* C32 witness: the REST handler has answered 405 to a GET whose body does
\* not decode.
C32_Witness ==
    /\ svcReply["rest"] # << >>
    /\ svcReq.method = "GET"
    /\ ~svcReq.decodes
    /\ RESTReply.status = StatusMethodNotAllowed

\* the code of the error object of the JSON-RPC answer, or none
RPCCode == RPCReply.error

\* C31: the JSON-RPC handler answers a POST with the first failing check of:
\* body decodes (-32700), jsonrpc is 2.0 (-32600), method is compute (-32601),
\* params decode and the logic accepts them (-32602); a request that is not a
\* POST gets -32601 before its body is looked at; every answer has HTTP status
\* 200, an answer with an error object has no result, and an answer to a
\* request that passes every check has a result and no error object.
C31_RPCCheckOrder ==
    svcReply["jsonrpc"] # << >> =>
        /\ RPCReply.status = StatusOK
        /\ RPCCode # << >> => RPCReply.result = << >>
        /\ RPCReply.result # << >> => RPCCode = << >>
        /\ svcReq.method # "POST" => RPCCode = << MethodNotFound >>
        /\ svcReq.method = "POST" =>
             IF ~svcReq.decodes THEN RPCCode = << ParseError >>
             ELSE IF svcReq.jsonrpc # "2.0" THEN RPCCode = << InvalidRequest >>
             ELSE IF svcReq.rpcMethod # "compute" THEN RPCCode = << MethodNotFound >>
             ELSE IF ~svcReq.paramsDecode \/ Execute(svcReq.body) # Nil
                  THEN RPCCode = << InvalidParams >>
             ELSE /\ RPCCode = << >>
                  /\ Len(RPCReply.result) = 1

\* C31 as stated, for every request whatever its HTTP method: the answer is
\* the first failing check of body, version, method and params.
C31_RPCCheckOrderAnyMethod ==
    svcReply["jsonrpc"] # << >> =>
        /\ RPCReply.status = StatusOK
        /\ RPCCode # << >> => RPCReply.result = << >>
        /\ RPCReply.result # << >> => RPCCode = << >>
        /\ IF ~svcReq.decodes THEN RPCCode = << ParseError >>
           ELSE IF svcReq.jsonrpc # "2.0" THEN RPCCode = << InvalidRequest >>
           ELSE IF svcReq.rpcMethod # "compute" THEN RPCCode = << MethodNotFound >>
           ELSE IF ~svcReq.paramsDecode \/ Execute(svcReq.body) # Nil
                THEN RPCCode = << InvalidParams >>
           ELSE RPCCode = << >>

\* C31 witness: the handler has answered -32600 to a POST whose version is not
\* 2.0, whose method is not compute and whose params do not decode.
C31_Witness ==
    /\ svcReply["jsonrpc"] # << >>
    /\ svcReq.method = "POST"
    /\ svcReq.decodes
    /\ svcReq.jsonrpc # "2.0"
    /\ svcReq.rpcMethod # "compute"
    /\ ~svcReq.paramsDecode
    /\ RPCCode = << InvalidRequest >>

\* the Snapshot returned
Snap == snap.out[1]

\* C40: a Snapshot taken while requests are handled reports, for each
\* protocol, an error count that is at most its request count, and totals
\* that are the sums of the three reported request counts and of the three
\* reported error counts.
C40_SnapshotConsistent ==
    snap.out # << >> =>
        /\ Snap.RESTErrors <= Snap.RESTRequests
        /\ Snap.JSONRPCErrors <= Snap.JSONRPCRequests
        /\ Snap.GRPCErrors <= Snap.GRPCRequests
        /\ Snap.TotalRequests
              = Snap.RESTRequests + Snap.JSONRPCRequests + Snap.GRPCRequests
        /\ Snap.TotalErrors
              = Snap.RESTErrors + Snap.JSONRPCErrors + Snap.GRPCErrors

\* C39: every step that changes the metrics is one increment, by one, of one
\* counter of the protocol of the handler that takes it; a handler returns
\* having incremented the request counter once and first, and the error
\* counter once or not at all; so no counter ever decreases, and for each
\* protocol the error counter is at most the request counter.
C39_CountersOrdered ==
    [][ /\ \A p \in Protocols :
             /\ metrics'.requests[p] >= metrics.requests[p]
             /\ metrics'.errors[p] >= metrics.errors[p]
             /\ metrics'.errors[p] <= metrics'.requests[p]
        /\ metrics' # metrics =>
             \E h \in Handlers, k \in {"requests", "errors"} :
                 /\ handling'[h].counted = Append(handling[h].counted, k)
                 /\ metrics' = [metrics EXCEPT ![k][handling[h].protocol] = @ + 1]
        /\ \A h \in Handlers :
             ( handling[h].pc = "run" /\ handling'[h].pc = "idle" )
                 => handling[h].counted
                        \in {<< "requests" >>, << "requests", "errors" >>}
      ]_vars

\* C39 witness: two handlers of one protocol are running at the same time,
\* one has counted its request and its error, the other its request only.
C39_Witness ==
    \E h, g \in Handlers :
        /\ handling[h].pc = "run"
        /\ handling[g].pc = "run"
        /\ handling[h].protocol = handling[g].protocol
        /\ handling[h].counted = << "requests", "errors" >>
        /\ handling[g].counted = << "requests" >>
        /\ metrics.requests[handling[h].protocol] = 2
        /\ metrics.errors[handling[h].protocol] = 1

====
